---- MODULE Spec2Model ----
(***************************************************************************)
(* Donation proxy (ituberus/pol): the Express handlers that validate a     *)
(* donation form, build a CartPanda order, dispatch it, and map the        *)
(* provider's reply to a checkout URL or a redirect.                       *)
(*                                                                         *)
(* JavaScript values are modelled as tagged records so that the loose      *)
(* coercions the handlers rely on (!x, isNaN(x), Number(x), x.trim()) are  *)
(* computed the way the language computes them.  A string is a sequence of *)
(* fragments; whitespace and digits are always single-character fragments. *)
(*                                                                         *)
(* Spec      one request at a time (slot 1) over the full input domain.    *)
(* SpecSplit the name split applied to every accepted name up to           *)
(*           MaxSplitLen characters.                                       *)
(* SpecConc  MaxSlots requests in flight at once, interleaved, over one    *)
(*           input of each outcome class.                                  *)
(* SpecLive  SpecConc with every awaited provider call settling.           *)
(* SpecStart the process from its first line: the environment check, then  *)
(*           requests, for every revision and every key/slug/CURRENCY.     *)
(* SpecV1    the revision of part_002 that posts to the v1 API.            *)
(* SpecEmail transformEmail applied to every email up to MaxEmailLen.      *)
(* SpecLink  the link-builder revision of paymentrack/server.js.           *)
(* SpecPlugin the WooCommerce email plugin (part_003) rendering one email. *)
(***************************************************************************)
EXTENDS Integers, Sequences, FiniteSets, TLC

\* ------------------------------------------------------------------ bounds
MaxNumLen == 2
MaxNameLen == 2
MaxSplitLen == 5
MaxSlots == 2

\* ------------------------------------------------------- JavaScript values
JsVal(t, n, s) == [t |-> t, n |-> n, s |-> s]
Undef == JsVal("undefined", 0, <<>>)
Null == JsVal("null", 0, <<>>)
NaN == JsVal("NaN", 0, <<>>)
Obj == JsVal("object", 0, <<>>)
Bool(b) == JsVal("boolean", IF b THEN 1 ELSE 0, <<>>)
Num(i) == JsVal("number", i, <<>>)
Str(q) == JsVal("string", 0, q)

Whitespace == {" ", "\t"}
Digits == {"0", "1", "2", "3", "4", "5", "6", "7", "8", "9"}

DigitVal(c) ==
  CASE c = "0" -> 0 [] c = "1" -> 1 [] c = "2" -> 2 [] c = "3" -> 3
    [] c = "4" -> 4 [] c = "5" -> 5 [] c = "6" -> 6 [] c = "7" -> 7
    [] c = "8" -> 8 [] c = "9" -> 9

\* ToBoolean: the truthiness tested by `!x`.
Truthy(v) ==
  CASE v.t = "undefined" -> FALSE
    [] v.t = "null" -> FALSE
    [] v.t = "NaN" -> FALSE
    [] v.t = "boolean" -> v.n = 1
    [] v.t = "number" -> v.n # 0
    [] v.t = "string" -> v.s # <<>>
    [] v.t = "object" -> TRUE

\* String.prototype.trim
RECURSIVE TrimLeft(_)
TrimLeft(q) ==
  IF q # <<>> /\ Head(q) \in Whitespace THEN TrimLeft(Tail(q)) ELSE q

RECURSIVE TrimRight(_)
TrimRight(q) ==
  IF q # <<>> /\ q[Len(q)] \in Whitespace
  THEN TrimRight(SubSeq(q, 1, Len(q) - 1))
  ELSE q

Trim(q) == TrimRight(TrimLeft(q))

IsDigits(q) == q # <<>> /\ \A i \in 1..Len(q) : q[i] \in Digits

RECURSIVE DecimalValue(_)
DecimalValue(q) ==
  IF q = <<>> THEN 0
  ELSE 10 * DecimalValue(SubSeq(q, 1, Len(q) - 1)) + DigitVal(q[Len(q)])

\* StringToNumber on decimal integer literals: surrounding whitespace is
\* dropped, the empty string is 0, an optional sign may precede the digits,
\* anything else is NaN.
StringToNumber(q) ==
  LET t == Trim(q) IN
  IF t = <<>> THEN Num(0)
  ELSE IF IsDigits(t) THEN Num(DecimalValue(t))
  ELSE IF Head(t) = "-" /\ IsDigits(Tail(t)) THEN Num(0 - DecimalValue(Tail(t)))
  ELSE IF Head(t) = "+" /\ IsDigits(Tail(t)) THEN Num(DecimalValue(Tail(t)))
  ELSE NaN

\* Number(x)
ToNumber(v) ==
  CASE v.t = "undefined" -> NaN
    [] v.t = "null" -> Num(0)
    [] v.t = "NaN" -> NaN
    [] v.t = "boolean" -> Num(v.n)
    [] v.t = "number" -> v
    [] v.t = "string" -> StringToNumber(v.s)
    [] v.t = "object" -> NaN

\* isNaN(x) coerces with Number(x) first.
IsNaN(v) == ToNumber(v).t = "NaN"

\* x <= 0 on the coerced number (false for NaN).
LeqZero(v) == ToNumber(v).t = "number" /\ ToNumber(v).n <= 0

\* `${x}` for the values that reach a template literal here.
TemplateString(v) ==
  CASE v.t = "number" -> <<ToString(v.n)>>
    [] v.t = "string" -> v.s
    [] v.t = "boolean" -> IF v.n = 1 THEN <<"true">> ELSE <<"false">>
    [] OTHER -> <<v.t>>

\* String.prototype.split(/\s+/): the maximal runs of non-whitespace, with an
\* empty token where the string starts or ends with whitespace.
RECURSIVE TakeToken(_)
TakeToken(q) ==
  IF q = <<>> \/ Head(q) \in Whitespace THEN <<>>
  ELSE <<Head(q)>> \o TakeToken(Tail(q))

RECURSIVE SplitWhitespace(_)
SplitWhitespace(q) ==
  LET tok == TakeToken(q)
      rest == SubSeq(q, Len(tok) + 1, Len(q))
  IN IF rest = <<>> THEN <<tok>>
     ELSE <<tok>> \o SplitWhitespace(TrimLeft(rest))

\* Array.prototype.join(" ")
RECURSIVE JoinSpace(_)
JoinSpace(parts) ==
  IF parts = <<>> THEN <<>>
  ELSE IF Len(parts) = 1 THEN parts[1]
  ELSE parts[1] \o <<" ">> \o JoinSpace(Tail(parts))

\* Mutant: lastName = nameParts[1] instead of the joined remainder.
splitFullNameSecondOnly(fullName) ==
  LET parts == SplitWhitespace(Trim(fullName)) IN
  [first |-> parts[1],
   last |-> IF Len(parts) > 1 THEN parts[2] ELSE <<>>]

\* const nameParts = fullName.trim().split(/\s+/);
\* firstName = nameParts[0];
\* lastName = nameParts.length > 1 ? nameParts.slice(1).join(" ") : '';
NameParts(fullName) == SplitWhitespace(Trim(fullName))

splitFullName(fullName) ==
  LET parts == NameParts(fullName) IN
  [first |-> parts[1],
   last |-> IF Len(parts) > 1 THEN JoinSpace(Tail(parts)) ELSE <<>>]

\* ------------------------------------------------------------ configuration
\* The deployment revisions whose create-order handler talks to the v3 API:
\*   placeholder  static 'N/A' address             (part_002, first file)
\*   mock         the same against the mock API    (part_001)
\*   geo          geolocated city, faker fallbacks (paymentrack/server.js)
\*   test         geolocation + TEST_MODE override (part_000)
\*   v1           the provider's v1 API            (part_002, second file)
\*   link         checkout link built locally      (paymentrack/server.js, second file)
V3Revisions == {"placeholder", "mock", "geo", "test"}

\* process.env as destructured at the top of the file.  The shop slug is a
\* string, <<>> when unset or empty; the other variables are JavaScript values.
Config(rev, slug, testMode, envVariant) ==
  [rev |-> rev, CARTPANDA_API_KEY |-> Str(<<"k3y">>), CARTPANDA_SHOP_SLUG |-> slug,
   CURRENCY |-> Undef, TEST_MODE |-> testMode, DONATION_VARIANT_ID |-> envVariant]

Configs ==
  { Config("placeholder", <<"shopA">>, Undef, Undef),
    Config("mock", <<"shopB">>, Undef, Undef),
    Config("geo", <<"shopA">>, Undef, Undef),
    Config("test", <<"shopB">>, Undef, Undef),
    Config("test", <<"shopA">>, Str(<<"false">>), Str(<<"2">>)),
    Config("test", <<"shopA">>, Str(<<"true">>), Undef),
    Config("test", <<"shopA">>, Str(<<"true">>), Str(<<"2">>)),
    Config("test", <<"shopA">>, Str(<<"true">>), Str(<<"a">>)) }

\* ------------------------------------------------------------ request inputs
RECURSIVE StringsUpTo(_, _)
StringsUpTo(chars, n) ==
  IF n = 0 THEN {<<>>}
  ELSE LET shorter == StringsUpTo(chars, n - 1)
       IN shorter \cup { Append(q, c) : q \in shorter, c \in chars }

NumChars == {" ", "-", "0", "2", "a"}
NameChars == {" ", "\t", "a", "b"}

NonStrings == {Undef, Null, Bool(FALSE), Bool(TRUE), Obj, Num(0 - 1), Num(0), Num(5)}

AmountVals == NonStrings \cup { Str(q) : q \in StringsUpTo(NumChars, MaxNumLen) }
VariantVals == AmountVals
NameVals == {Undef, Null, Bool(TRUE), Obj, Num(5)}
            \cup { Str(q) : q \in StringsUpTo(NameChars, MaxNameLen) }
EmailVals == {Undef, Null, Str(<<>>), Str(<<"d@x.org">>), Num(1)}

BaseAmounts == {Num(5), Undef}
BaseVariants == {Num(1), Undef}
BaseNames == {Str(<<"a">>), Str(<<" ">>), Num(5)}
BaseEmails == {Str(<<"d@x.org">>), Undef}

\* phoneNumber is read by the link builder only; the forms of the other
\* revisions do not send it.
Body(a, v, n, e) ==
  [donationAmount |-> a, variantId |-> v, fullName |-> n, email |-> e,
   phoneNumber |-> Undef]

\* req.body of POST /create-donation-order: every value of one field against
\* the base values of the others.
CreateBodies ==
  { Body(a, v, n, e) : a \in AmountVals, v \in BaseVariants, n \in BaseNames, e \in BaseEmails }
  \cup { Body(a, v, n, e) : a \in BaseAmounts, v \in VariantVals, n \in BaseNames, e \in BaseEmails }
  \cup { Body(a, v, n, e) : a \in BaseAmounts, v \in BaseVariants, n \in NameVals, e \in BaseEmails }
  \cup { Body(a, v, n, e) : a \in BaseAmounts, v \in BaseVariants, n \in BaseNames, e \in EmailVals }

NoBody == Body(Undef, Undef, Undef, Undef)

\* --------------------------------------------------- environment of a request
\* geoip.lookup(userIP): null, or a record whose fields may be empty.
Geo(found, city, region, country) ==
  [found |-> found, city |-> city, region |-> region, country |-> country]

\* What the request's environment supplies besides the body: the geolocation
\* of the client IP and whether the faker calls throw.
Env(geo, fakerThrows) == [geo |-> geo, fakerThrows |-> fakerThrows]

Envs ==
  { Env(Geo(FALSE, <<>>, <<>>, <<>>), FALSE),
    Env(Geo(TRUE, <<>>, <<>>, <<"US">>), TRUE),
    Env(Geo(TRUE, <<"Paris">>, <<" ", "idf">>, <<"FR">>), FALSE),
    Env(Geo(TRUE, <<"Paris">>, <<" ", "idf">>, <<"FR">>), TRUE) }
NoEnv == Env(Geo(FALSE, <<>>, <<>>, <<>>), FALSE)

UsesEnv(rev) == rev \in {"geo", "test", "v1"}

RequestEnvs(rev) == IF UsesEnv(rev) THEN Envs ELSE {NoEnv}

\* ---------------------------------------------- POST /create-donation-order
\* Mutant: the flag tested for truthiness, so that 'false' switches it on.
TestModeOnIfSet(c) == c.rev = "test" /\ Truthy(c.TEST_MODE)

\* if (TEST_MODE === 'true')
TestModeOn(c) == c.rev = "test" /\ c.TEST_MODE = Str(<<"true">>)

\* donationAmount / variantId after the TEST_MODE override (part_000 only).
EffectiveAmount(c, b) == IF TestModeOn(c) THEN Num(1) ELSE b.donationAmount
EffectiveVariant(c, b) == IF TestModeOn(c) THEN c.DONATION_VARIANT_ID ELSE b.variantId

\* if (!donationAmount || isNaN(donationAmount) || Number(donationAmount) <= 0)
\* part_000 coerces first: !final || isNaN(final) || final <= 0.
AmountRejected(c, b) ==
  LET a == EffectiveAmount(c, b) IN
  IF c.rev = "test"
  THEN ~Truthy(ToNumber(a)) \/ IsNaN(ToNumber(a)) \/ LeqZero(ToNumber(a))
  ELSE ~Truthy(a) \/ IsNaN(a) \/ LeqZero(a)

\* if (!variantId || isNaN(Number(variantId)))
\* part_000: !finalVariantId || isNaN(finalVariantId).
VariantRejected(c, b) ==
  LET v == EffectiveVariant(c, b) IN
  IF c.rev = "test"
  THEN ~Truthy(ToNumber(v)) \/ IsNaN(ToNumber(v))
  ELSE ~Truthy(v) \/ IsNaN(ToNumber(v))

\* fullName.trim() on a truthy value that is not a string: TypeError.
NameThrows(b) == Truthy(b.fullName) /\ b.fullName.t # "string"

\* if (!fullName || fullName.trim() === "")
NameRejected(b) ==
  ~Truthy(b.fullName) \/ (b.fullName.t = "string" /\ Trim(b.fullName.s) = <<>>)

\* if (!email)
EmailRejected(b) == ~Truthy(b.email)

\* Mutant: the name and email checks moved ahead of the amount and variant
\* checks.
ValidateNameFirst(c, b) ==
  IF NameThrows(b) THEN "throw"
  ELSE IF NameRejected(b) THEN "name"
  ELSE IF EmailRejected(b) THEN "email"
  ELSE IF AmountRejected(c, b) THEN "amount"
  ELSE IF VariantRejected(c, b) THEN "variant"
  ELSE "ok"

\* The outcome of the validation block: the first check that fires, "throw"
\* when evaluating the name check raises, "ok" when all four pass.
Validate(c, b) ==
  IF AmountRejected(c, b) THEN "amount"
  ELSE IF VariantRejected(c, b) THEN "variant"
  ELSE IF NameThrows(b) THEN "throw"
  ELSE IF NameRejected(b) THEN "name"
  ELSE IF EmailRejected(b) THEN "email"
  ELSE "ok"

ErrAmount == "Invalid donation amount"
ErrVariant == "Missing or invalid variant ID"
ErrName == "Full name is required"
ErrEmail == "Email is required"
ErrGeneric == "Could not create order, please try again."
ErrNoUrlCartPanda == "No checkout URL returned from CartPanda. Cannot redirect to payment."
ErrNoUrlMock == "No checkout URL returned from mock API. Cannot redirect to payment."

ValidationError(outcome) ==
  CASE outcome = "amount" -> ErrAmount
    [] outcome = "variant" -> ErrVariant
    [] outcome = "name" -> ErrName
    [] outcome = "email" -> ErrEmail

\* ---- address resolution
NA == <<"N/A">>

\* The location fields every revision puts in billing_address and
\* shipping_address; each value is a JavaScript value.
Address(street, city, province, provinceCode, zip) ==
  [house_no |-> street, city |-> city, province |-> province,
   province_code |-> provinceCode, zip |-> zip]

\* let x = 'N/A'; try { const t = faker...(); if (typeof t === 'string' &&
\* t.trim() !== '') x = t; } catch (e) { ... }
FakerOrNA(env, value) == IF env.fakerThrows THEN NA ELSE value

\* mapISOToCountry(isoCode)
mapISOToCountry(isoCode) ==
  CASE isoCode = <<"US">> -> <<"United States">>
    [] isoCode = <<"BR">> -> <<"Brazil">>
    [] isoCode = <<"CA">> -> <<"Canada">>
    [] isoCode = <<"GB">> -> <<"United Kingdom">>
    [] isoCode = <<"AU">> -> <<"Australia">>
    [] OTHER -> <<"United States">>

\* The letters that occur in region and currency codes, lower and upper case.
LowerLetters == <<"b", "r", "l", "u", "s", "d", "idf">>
UpperLetters == <<"B", "R", "L", "U", "S", "D", "IDF">>

\* String.prototype.toUpperCase
ToUpperCase(q) ==
  [i \in 1..Len(q) |->
     IF \E k \in 1..Len(LowerLetters) : LowerLetters[k] = q[i]
     THEN UpperLetters[CHOOSE k \in 1..Len(LowerLetters) : LowerLetters[k] = q[i]]
     ELSE q[i]]

\* String.prototype.toLowerCase
ToLowerCase(q) ==
  [i \in 1..Len(q) |->
     IF \E k \in 1..Len(UpperLetters) : UpperLetters[k] = q[i]
     THEN LowerLetters[CHOOSE k \in 1..Len(UpperLetters) : UpperLetters[k] = q[i]]
     ELSE q[i]]

\* Mutant: the geolocated city ignored, the placeholder always sent.
GeoCityIgnored(c, env) ==
  IF c.rev \in {"test", "v1"} THEN <<"Faketown">> ELSE NA

\* const city = geo?.city || 'N/A';   (server.js)
\* (geo && geo.city && geo.city.trim()) ? geo.city.trim() : faker.location.city()
GeoCity(c, env) ==
  IF c.rev \in {"test", "v1"}
  THEN IF env.geo.found /\ Trim(env.geo.city) # <<>>
       THEN Trim(env.geo.city) ELSE <<"Faketown">>
  ELSE IF env.geo.found /\ env.geo.city # <<>> THEN env.geo.city ELSE NA

\* The location fields of the order document, per revision.  In part_000 the
\* faker calls are not guarded: a throw there reaches the handler's catch.
ResolveAddress(c, env) ==
  CASE c.rev = "placeholder" ->
         Address(Str(NA), Str(NA), Str(NA), Str(NA), Num(0))
    [] c.rev = "mock" ->
         Address(Str(NA), Str(NA), Str(NA), Str(NA), Num(0))
         @@ [address1 |-> Str(NA), address2 |-> Str(NA), address |-> Str(NA),
             compartment |-> Str(NA), neighborhood |-> Str(NA),
             company |-> Str(NA), phone |-> Str(NA)]
    [] c.rev = "geo" ->
         Address(Str(FakerOrNA(env, <<"1 Fake St">>)),
                 Str(GeoCity(c, env)),
                 Str(FakerOrNA(env, <<"Texas">>)),
                 Str(FakerOrNA(env, <<"12345">>)),
                 Num(0))
    [] c.rev = "test" ->
         Address(Str(<<"1 Fake St">>),
                 Str(GeoCity(c, env)),
                 Str(<<"Texas">>),
                 Str(IF env.geo.found /\ Trim(env.geo.region) # <<>>
                     THEN ToUpperCase(Trim(env.geo.region)) ELSE <<"XX">>),
                 Str(<<"12345">>))
         @@ [address1 |-> Str(<<"1 Fake St">>), address2 |-> Str(<<>>),
             country |-> Str(mapISOToCountry(IF env.geo.found /\ env.geo.country # <<>>
                                             THEN env.geo.country ELSE <<"US">>))]
    [] c.rev = "v1" ->
         Address(Str(<<"123">>),
                 Str(GeoCity(c, env)),
                 Str(<<"Texas">>),
                 Str(IF env.geo.found /\ Trim(env.geo.region) # <<>>
                     THEN ToUpperCase(Trim(env.geo.region)) ELSE <<"XX">>),
                 Num(12345))
         @@ [address1 |-> Str(<<"1 Fake St">>), address2 |-> Str(NA),
             address |-> Str(<<"1 Fake St">>), compartment |-> Str(NA),
             neighborhood |-> Str(NA), company |-> Str(NA),
             phone |-> Str(<<"+17205550123">>)]

AddressThrows(c, env) == c.rev \in {"test", "v1"} /\ env.fakerThrows

\* ---- the order document
\* subtotal_amount etc. carry donationAmount as received (a numeric string
\* stays a string); part_000 sends the coerced finalDonationAmount.
DocAmount(c, b) ==
  IF c.rev = "test" THEN ToNumber(EffectiveAmount(c, b)) ELSE b.donationAmount

\* Mutant: the variant reference passed on as received, without Number().
LineItemsRaw(c, b) ==
  << [variant_id |-> EffectiveVariant(c, b), quantity |-> 1] >>

\* const lineItems = [{ variant_id: Number(variantId), quantity: 1 }];
LineItems(c, b) ==
  << [variant_id |-> ToNumber(EffectiveVariant(c, b)), quantity |-> 1] >>

\* billing_address / shipping_address: the split name and the resolved address.
Party(b, addr) ==
  [first_name |-> splitFullName(b.fullName.s).first,
   last_name |-> splitFullName(b.fullName.s).last,
   name |-> b.fullName.s,
   address |-> addr]

\* Mutant: the payment method chosen by the size of the donation.
PaymentByAmount(amount) ==
  [payment_gateway_id |-> "cartpanda_pay", amount |-> amount, gateway |-> "other",
   type |-> IF ToNumber(amount) = Num(5) THEN "boleto" ELSE "cc",
   boleto_link |-> "N/A", boleto_code |-> "N/A", boleto_limit_date |-> "tomorrow"]

\* payment: { payment_gateway_id, amount, gateway, type: 'cc', boleto_link,
\* boleto_code, boleto_limit_date: getTomorrowDate() }
Payment(amount) ==
  [payment_gateway_id |-> "cartpanda_pay", amount |-> amount, gateway |-> "other",
   type |-> "cc", boleto_link |-> "N/A", boleto_code |-> "N/A",
   boleto_limit_date |-> "tomorrow"]

\* Mutant: the configured currency passed on in the case it was written in.
DEFAULT_CURRENCY_AsConfigured(c) ==
  IF Truthy(c.CURRENCY) THEN c.CURRENCY.s
  ELSE IF c.rev \in {"test", "v1"} THEN <<"U", "S", "D">> ELSE <<"u", "s", "d">>

\* const DEFAULT_CURRENCY = (CURRENCY || 'usd').toLowerCase();
\* part_000:               (CURRENCY || 'USD').toUpperCase();
DEFAULT_CURRENCY(c) ==
  IF c.rev \in {"test", "v1"}
  THEN ToUpperCase(IF Truthy(c.CURRENCY) THEN c.CURRENCY.s ELSE <<"U", "S", "D">>)
  ELSE ToLowerCase(IF Truthy(c.CURRENCY) THEN c.CURRENCY.s ELSE <<"u", "s", "d">>)

OrderData(c, b, e) ==
  [email |-> b.email,
   currency |-> DEFAULT_CURRENCY(c),
   presentment_currency |-> DEFAULT_CURRENCY(c),
   subtotal_amount |-> DocAmount(c, b),
   products_total_amount |-> DocAmount(c, b),
   total_amount |-> DocAmount(c, b),
   line_items |-> LineItems(c, b),
   billing_address |-> Party(b, ResolveAddress(c, e)),
   shipping_address |-> Party(b, ResolveAddress(c, e)),
   payment |-> IF c.rev = "v1"
               THEN [Payment(DocAmount(c, b)) EXCEPT
                       !.payment_gateway_id = "random-payment-gateway-id"]
               ELSE Payment(DocAmount(c, b)),
   customer |-> [email |-> b.email,
                 first_name |-> splitFullName(b.fullName.s).first,
                 last_name |-> splitFullName(b.fullName.s).last]]

\* ---- outbound calls
\* 'Authorization': `Bearer ${CARTPANDA_API_KEY}`; part_001 has the token of
\* the mock API written into the header.
Bearer(c) ==
  <<"Bearer ">> \o (IF c.rev = "mock" THEN <<"Zdj5">> ELSE TemplateString(c.CARTPANDA_API_KEY))

\* axios.post(`${BASE}/${CARTPANDA_SHOP_SLUG}/order`, orderData, ...)
PostOrder(c, doc) ==
  [method |-> "POST", path |-> c.CARTPANDA_SHOP_SLUG \o <<"/order">>,
   auth |-> Bearer(c), data |-> <<doc>>]

\* axios.get(`${BASE}/${CARTPANDA_SHOP_SLUG}/order/${orderId}`, ...)
GetOrder(c, orderId) ==
  [method |-> "GET",
   path |-> c.CARTPANDA_SHOP_SLUG \o <<"/order/">> \o TemplateString(orderId),
   auth |-> Bearer(c), data |-> <<>>]

\* ---- provider replies
\* The body of a 2xx reply (apiResponse.data): JSON null, an empty body, or an
\* object whose fields may each be absent.
Data(shape, orderShape, oLink, oId, tLink, paymentStatus, statusId) ==
  [shape |-> shape, orderShape |-> orderShape, order_checkout_link |-> oLink,
   order_id |-> oId, checkout_link |-> tLink, thank_you_page |-> Undef,
   payment_status |-> paymentStatus, status_id |-> statusId]

NoData == Data("null", "undefined", Undef, Undef, Undef, Undef, Undef)
EmptyData == Data("empty", "undefined", Undef, Undef, Undef, Undef, Undef)

OrderLinks == {Undef, Str(<<>>), Str(<<"https://pay.example/a">>)}
TopLinks == {Undef, Str(<<>>), Str(<<"https://pay.example/a">>), Str(<<"https://pay.example/b">>)}
OrderIds == {Undef, Num(0), Num(7), Str(<<"x9">>)}

CreateDatas ==
  {NoData, EmptyData}
  \cup { Data("object", "object", ol, id, tl, Undef, Undef) :
           ol \in OrderLinks, id \in OrderIds, tl \in TopLinks }
  \cup { Data("object", os, Undef, Undef, tl, Undef, Undef) :
           os \in {"undefined", "null"}, tl \in TopLinks }

PaymentStatuses == {Undef, Num(3), Str(<<"3">>), Str(<<"paid">>), Num(1)}
StatusIds == {Undef, Str(<<"3">>), Num(3), Str(<<"1">>)}

LookupDatas ==
  {NoData, EmptyData}
  \cup { Data("object", "undefined", Undef, Undef, Undef, ps, si) :
           ps \in PaymentStatuses, si \in StatusIds }

\* A settled axios promise: fulfilled with data, or rejected (no connection,
\* the 10 s timeout, a non-2xx status carrying the provider's error payload).
Reply(kind, data, payload) == [kind |-> kind, data |-> data, payload |-> payload]
NoReply == Reply("none", NoData, <<>>)

Failures ==
  { Reply("network", NoData, <<"connect ECONNREFUSED">>),
    Reply("timeout", NoData, <<"timeout of 10000ms exceeded">>),
    Reply("http", NoData, <<"provider: invalid token">>) }

CreateReplies == { Reply("ok", d, <<>>) : d \in CreateDatas } \cup Failures
LookupReplies == { Reply("ok", d, <<>>) : d \in LookupDatas } \cup Failures

\* createdOrder?.order?.checkout_link
OrderLink(d) ==
  IF d.shape = "object" /\ d.orderShape = "object" THEN d.order_checkout_link ELSE Undef

\* createdOrder?.order?.id
OrderId(d) ==
  IF d.shape = "object" /\ d.orderShape = "object" THEN d.order_id ELSE Undef

\* createdOrder.checkout_link (no optional chaining: throws on null)
TopLink(d) == IF d.shape = "object" THEN d.checkout_link ELSE Undef
TopLinkThrows(d) == d.shape = "null"

\* Mutant: the order id appended as a path segment instead of the query.
SynthesizedUrlAsPath(c, id) ==
  Str(<<"https://">> \o c.CARTPANDA_SHOP_SLUG
      \o <<".mycartpanda.com/checkout/">> \o TemplateString(id))

\* `https://${CARTPANDA_SHOP_SLUG}.mycartpanda.com/checkout?order_id=${id}`
SynthesizedUrl(c, id) ==
  Str(<<"https://">> \o c.CARTPANDA_SHOP_SLUG
      \o <<".mycartpanda.com/checkout?order_id=">> \o TemplateString(id))

Resolved(kind, url, source) == [kind |-> kind, url |-> url, source |-> source]

\* Mutant: the top-level link tested before the order-level link.
ResolveCheckoutTopFirst(c, d) ==
  IF TopLinkThrows(d) THEN Resolved("throw", Undef, "none")
  ELSE IF Truthy(TopLink(d)) THEN Resolved("url", TopLink(d), "top_link")
  ELSE IF Truthy(OrderLink(d)) THEN Resolved("url", OrderLink(d), "order_link")
  ELSE IF Truthy(OrderId(d)) THEN Resolved("url", SynthesizedUrl(c, OrderId(d)), "order_id")
  ELSE Resolved("none", Undef, "none")

\* Mutant: the order id tested before the top-level link.
ResolveCheckoutIdFirst(c, d) ==
  IF Truthy(OrderLink(d)) THEN Resolved("url", OrderLink(d), "order_link")
  ELSE IF Truthy(OrderId(d)) THEN Resolved("url", SynthesizedUrl(c, OrderId(d)), "order_id")
  ELSE IF TopLinkThrows(d) THEN Resolved("throw", Undef, "none")
  ELSE IF Truthy(TopLink(d)) THEN Resolved("url", TopLink(d), "top_link")
  ELSE Resolved("none", Undef, "none")

\* Mutant: the links tested for being defined rather than for being truthy.
ResolveCheckoutIfDefined(c, d) ==
  IF OrderLink(d) # Undef THEN Resolved("url", OrderLink(d), "order_link")
  ELSE IF TopLinkThrows(d) THEN Resolved("throw", Undef, "none")
  ELSE IF TopLink(d) # Undef THEN Resolved("url", TopLink(d), "top_link")
  ELSE IF Truthy(OrderId(d)) THEN Resolved("url", SynthesizedUrl(c, OrderId(d)), "order_id")
  ELSE Resolved("none", Undef, "none")

\* The if / else-if chain that picks checkoutUrl from the create-order reply.
ResolveCheckout(c, d) ==
  IF Truthy(OrderLink(d)) THEN Resolved("url", OrderLink(d), "order_link")
  ELSE IF TopLinkThrows(d) THEN Resolved("throw", Undef, "none")
  ELSE IF Truthy(TopLink(d)) THEN Resolved("url", TopLink(d), "top_link")
  ELSE IF Truthy(OrderId(d)) THEN Resolved("url", SynthesizedUrl(c, OrderId(d)), "order_id")
  ELSE Resolved("none", Undef, "none")

\* Mutant: the v3 chain tried when the v1 reply has no thank_you_page.
ResolveThankYouThenLinks(c, d) ==
  IF d.shape = "object" /\ d.orderShape = "object" /\ Truthy(d.thank_you_page)
  THEN Resolved("url", d.thank_you_page, "thank_you_page")
  ELSE ResolveCheckout(c, d)

\* v1: if (createdOrder?.order?.thank_you_page) checkoutUrl = ...; else 500.
ResolveThankYou(c, d) ==
  IF d.shape = "object" /\ d.orderShape = "object" /\ Truthy(d.thank_you_page)
  THEN Resolved("url", d.thank_you_page, "thank_you_page")
  ELSE Resolved("none", Undef, "none")

ErrNoThankYouPage == "No thank_you_page returned from CartPanda. Cannot redirect to payment."

NoUrlError(c) ==
  CASE c.rev = "mock" -> ErrNoUrlMock
    [] c.rev = "v1" -> ErrNoThankYouPage
    [] OTHER -> ErrNoUrlCartPanda

\* ---- responses to the client
\* status, the JSON body's checkoutUrl / error, the Location of a redirect,
\* and the plain-text content when the response is not JSON.
Response(status, checkoutUrl, error, location) ==
  [status |-> status, checkoutUrl |-> checkoutUrl, error |-> error,
   location |-> location, text |-> ""]
NoResponse == Response(0, Undef, "", "")

Json200(url) == Response(200, url, "", "")
JsonError(status, error) == Response(status, Undef, error, "")
Redirect(location) == Response(302, Undef, "", location)

\* Mutant: the catch block hands the logged detail to the client.
CatchCreateLeaky(payload) == [resp |-> JsonError(500, payload[1]), log |-> payload]

\* catch (error) { console.error(..., error.response?.data || error.message);
\*                 return res.status(500).json({ error: '...' }); }
CatchCreate(payload) == [resp |-> JsonError(500, ErrGeneric), log |-> payload]

\* The continuation of the create handler once axios.post has settled.
CreateOutcome(c, rep) ==
  IF rep.kind # "ok" THEN CatchCreate(rep.payload) @@ [source |-> "none"]
  ELSE LET res == IF c.rev = "v1" THEN ResolveThankYou(c, rep.data)
                  ELSE ResolveCheckout(c, rep.data) IN
       CASE res.kind = "url" ->
              [resp |-> Json200(res.url), log |-> <<>>, source |-> res.source]
         [] res.kind = "none" ->
              [resp |-> JsonError(500, NoUrlError(c)), log |-> <<>>, source |-> "none"]
         [] res.kind = "throw" ->
              CatchCreate(<<"TypeError: Cannot read properties of null">>)
              @@ [source |-> "none"]

\* ------------------------------------------------------ GET /cartpanda_return
OrderIdParams == {Undef, Str(<<>>), Str(<<"7">>), Str(<<"x9">>)}

\* Mutant: loose equality (==), which coerces '3' and 3 to each other.
IsPaidLoose(d) ==
  d.shape = "object"
  /\ (ToNumber(d.payment_status) = Num(3) \/ ToNumber(d.status_id) = Num(3))

\* Mutant: the v1 spelling 'paid' accepted next to the v3 sentinels.
IsPaidOrNamedPaid(d) ==
  d.shape = "object"
  /\ (d.payment_status = Num(3) \/ d.payment_status = Str(<<"paid">>)
      \/ d.status_id = Str(<<"3">>))

\* const paid = (orderData?.payment_status === 3 || orderData?.status_id === '3');
IsPaid(d) ==
  d.shape = "object" /\ (d.payment_status = Num(3) \/ d.status_id = Str(<<"3">>))

\* The continuation of the return handler once axios.get has settled.
ReturnOutcome(rep) ==
  IF rep.kind # "ok" THEN [resp |-> Redirect("/error.html"), log |-> rep.payload]
  ELSE IF IsPaid(rep.data) THEN [resp |-> Redirect("/thanks.html"), log |-> <<>>]
  ELSE [resp |-> Redirect("/error.html"), log |-> <<>>]

\* ------------------------------------------------- POST /cartpanda-webhook
\* req.body of a provider event as the handler sees it: an object whose event
\* and order may be absent, or undefined when no parser filled it in.
Hook(shape, event, order, orderId) ==
  [shape |-> shape, event |-> event, order |-> order, order_id |-> orderId]
NoHook == Hook("none", Undef, "undefined", Undef)

HookPayloads ==
  { Hook("undefined", Undef, "undefined", Undef),
    Hook("object", Undef, "undefined", Undef),
    Hook("object", Str(<<"order.paid">>), "null", Undef),
    Hook("object", Str(<<"order.paid">>), "object", Num(7)),
    Hook("object", Str(<<"order.created">>), "object", Undef) }

\* const eventName = req.body.event;   (a TypeError when req.body is undefined)
HookThrows(h) == h.shape = "undefined"

\* res.sendStatus(code): the status, and its reason phrase as the only content.
SendStatus(code) ==
  [Response(code, Undef, "", "") EXCEPT
     !.text = IF code = 200 THEN "OK" ELSE "Internal Server Error"]

\* try { ...console.log...; res.sendStatus(200); } catch { res.sendStatus(500); }
WebhookOutcome(h) == IF HookThrows(h) THEN SendStatus(500) ELSE SendStatus(200)

\* ---- errors outside the route handlers
ErrInternal == "Internal server error"

\* app.use((err, req, res, next) => { ...; res.status(500).json({ error }) })
GlobalErrorHandler == JsonError(500, ErrInternal)

\* Mutant: no handler registered, so the runtime's default applies: the
\* process prints the error and exits.
OnProcessErrorExit(kind) == [server |-> "exited", procLog |-> kind, exitCode |-> 1]

\* process.on('unhandledRejection', ...) / process.on('uncaughtException', ...):
\* console.error and nothing else.
OnProcessError(kind) == [server |-> "running", procLog |-> kind, exitCode |-> 0]

\* ================================================================== state
VARIABLES
  cfg,       \* process.env as read at start-up, and the revision deployed
  pc,        \* per request slot: idle, awaitCreate, awaitLookup, done
  route,     \* the endpoint the request in the slot was sent to
  body,      \* req.body of a create-donation-order request
  query,     \* req.query.order_id of a cartpanda_return request
  hook,      \* req.body of a cartpanda-webhook request
  env,       \* geolocation / faker outcome met by the request
  sent,      \* the outbound provider calls issued for the request, in order
  reply,     \* how the awaited provider call settled
  resp,      \* the response sent to the client
  answers,   \* how many responses the handler has sent for the request
  log,       \* what the handler wrote to the server log with console.error
  urlSource, \* the branch of the checkout-URL chain that produced the URL
  server,    \* the process: starting, running or exited
  procLog,   \* the last error logged by a process-level handler
  exitCode,  \* the code the process exited with, 0 while it has not
  fnArg,     \* a helper function under test: its argument ...
  fnRet      \* ... and what it returned, <<>> before the call

vars == <<cfg, pc, route, body, query, hook, env, sent, reply, resp, answers,
          log, urlSource, server, procLog, exitCode, fnArg, fnRet>>
fnVars == <<fnArg, fnRet>>
procVars == <<server, procLog, exitCode>>

Slots == 1..MaxSlots

\* No request in any slot.
IdleSlots ==
  /\ pc = [r \in Slots |-> "idle"]
  /\ route = [r \in Slots |-> "none"]
  /\ body = [r \in Slots |-> NoBody]
  /\ query = [r \in Slots |-> Undef]
  /\ hook = [r \in Slots |-> NoHook]
  /\ env = [r \in Slots |-> NoEnv]
  /\ sent = [r \in Slots |-> <<>>]
  /\ reply = [r \in Slots |-> NoReply]
  /\ resp = [r \in Slots |-> NoResponse]
  /\ answers = [r \in Slots |-> 0]
  /\ log = [r \in Slots |-> <<>>]
  /\ urlSource = [r \in Slots |-> "none"]

\* The server after app.listen, before its first request.
IdleServer ==
  /\ IdleSlots
  /\ server = "running"
  /\ procLog = "none"
  /\ exitCode = 0

Init ==
  /\ cfg \in Configs
  /\ IdleServer
  /\ fnArg = <<>>
  /\ fnRet = <<>>

\* app.post('/create-donation-order'): the handler up to its first await, on
\* body b in environment e.  Validation answers 400; a throw (a non-string
\* name, an unguarded faker call) lands in the catch and answers 500;
\* otherwise the order document is built and posted.
CreateHandler(r, b, e) ==
  /\ route' = [route EXCEPT ![r] = "create"]
  /\ body' = [body EXCEPT ![r] = b]
  /\ env' = [env EXCEPT ![r] = e]
  /\ LET outcome == Validate(cfg, b) IN
     IF outcome \in {"amount", "variant", "name", "email"}
     THEN /\ resp' = [resp EXCEPT ![r] = JsonError(400, ValidationError(outcome))]
          /\ answers' = [answers EXCEPT ![r] = @ + 1]
          /\ pc' = [pc EXCEPT ![r] = "done"]
          /\ UNCHANGED <<sent, log>>
     ELSE IF outcome = "throw" \/ AddressThrows(cfg, e)
     THEN /\ resp' = [resp EXCEPT ![r] = CatchCreate(<<"TypeError">>).resp]
          /\ answers' = [answers EXCEPT ![r] = @ + 1]
          /\ log' = [log EXCEPT ![r] = CatchCreate(<<"TypeError">>).log]
          /\ pc' = [pc EXCEPT ![r] = "done"]
          /\ UNCHANGED sent
     ELSE /\ sent' = [sent EXCEPT ![r] = Append(@, PostOrder(cfg, OrderData(cfg, b, e)))]
          /\ pc' = [pc EXCEPT ![r] = "awaitCreate"]
          /\ UNCHANGED <<resp, answers, log>>
  /\ UNCHANGED <<cfg, query, hook, reply, urlSource, procVars, fnVars>>

\* A create-donation-order request arrives in slot r.
CreateDonationOrder(r) ==
  /\ server = "running"
  /\ pc[r] = "idle"
  /\ \E b \in CreateBodies, e \in RequestEnvs(cfg.rev) : CreateHandler(r, b, e)

\* Mutant: a failed axios.post is issued once more instead of answered.
CreateSettleRetry(r, rep) ==
  IF rep.kind # "ok" /\ Len(sent[r]) < 2
  THEN /\ sent' = [sent EXCEPT ![r] = Append(@, @[1])]
       /\ reply' = [reply EXCEPT ![r] = rep]
       /\ UNCHANGED <<cfg, pc, route, body, query, hook, env, resp, answers, log,
                      urlSource, procVars, fnVars>>
  ELSE /\ reply' = [reply EXCEPT ![r] = rep]
       /\ resp' = [resp EXCEPT ![r] = CreateOutcome(cfg, rep).resp]
       /\ answers' = [answers EXCEPT ![r] = @ + 1]
       /\ log' = [log EXCEPT ![r] = CreateOutcome(cfg, rep).log]
       /\ urlSource' = [urlSource EXCEPT ![r] = CreateOutcome(cfg, rep).source]
       /\ pc' = [pc EXCEPT ![r] = "done"]
       /\ UNCHANGED <<cfg, route, body, query, hook, env, sent, procVars, fnVars>>

\* Mutant: the branch of the URL chain kept in a module-level variable that
\* every request in flight shares.
CreateSettleShared(r, rep) ==
  /\ reply' = [reply EXCEPT ![r] = rep]
  /\ resp' = [resp EXCEPT ![r] = CreateOutcome(cfg, rep).resp]
  /\ answers' = [answers EXCEPT ![r] = @ + 1]
  /\ log' = [log EXCEPT ![r] = CreateOutcome(cfg, rep).log]
  /\ urlSource' = [q \in Slots |-> CreateOutcome(cfg, rep).source]
  /\ pc' = [pc EXCEPT ![r] = "done"]
  /\ UNCHANGED <<cfg, route, body, query, hook, env, sent, procVars, fnVars>>

\* The create handler from its await on: axios.post has settled as rep and
\* the handler runs to its response.
CreateSettle(r, rep) ==
  /\ reply' = [reply EXCEPT ![r] = rep]
  /\ resp' = [resp EXCEPT ![r] = CreateOutcome(cfg, rep).resp]
  /\ answers' = [answers EXCEPT ![r] = @ + 1]
  /\ log' = [log EXCEPT ![r] = CreateOutcome(cfg, rep).log]
  /\ urlSource' = [urlSource EXCEPT ![r] = CreateOutcome(cfg, rep).source]
  /\ pc' = [pc EXCEPT ![r] = "done"]
  /\ UNCHANGED <<cfg, route, body, query, hook, env, sent, procVars, fnVars>>

\* The awaited axios.post settles.
CreateOrderSettled(r) ==
  /\ server = "running"
  /\ pc[r] = "awaitCreate"
  /\ \E rep \in CreateReplies : CreateSettle(r, rep)

\* Mutant: the handler without its `if (!orderId)` guard.
CartpandaReturnUnguarded(r) ==
  /\ server = "running"
  /\ pc[r] = "idle"
  /\ route' = [route EXCEPT ![r] = "return"]
  /\ \E q \in OrderIdParams :
       /\ query' = [query EXCEPT ![r] = q]
       /\ sent' = [sent EXCEPT ![r] = Append(@, GetOrder(cfg, q))]
       /\ pc' = [pc EXCEPT ![r] = "awaitLookup"]
  /\ UNCHANGED <<cfg, body, hook, env, reply, resp, answers, log, urlSource,
                 procVars, fnVars>>

\* app.get('/cartpanda_return'): the handler up to its await, on order_id q.
ReturnHandler(r, q) ==
  /\ route' = [route EXCEPT ![r] = "return"]
  /\ query' = [query EXCEPT ![r] = q]
  /\ IF ~Truthy(q)
     THEN /\ resp' = [resp EXCEPT ![r] = Redirect("/error.html")]
          /\ answers' = [answers EXCEPT ![r] = @ + 1]
          /\ pc' = [pc EXCEPT ![r] = "done"]
          /\ UNCHANGED sent
     ELSE /\ sent' = [sent EXCEPT ![r] = Append(@, GetOrder(cfg, q))]
          /\ pc' = [pc EXCEPT ![r] = "awaitLookup"]
          /\ UNCHANGED <<resp, answers>>
  /\ UNCHANGED <<cfg, body, hook, env, reply, log, urlSource, procVars, fnVars>>

\* A cartpanda_return request arrives in slot r.
CartpandaReturn(r) ==
  /\ server = "running"
  /\ pc[r] = "idle"
  /\ \E q \in OrderIdParams : ReturnHandler(r, q)

\* Mutant: the redirect issued in the try block and once more after it.
LookupSettleTwice(r, rep) ==
  /\ reply' = [reply EXCEPT ![r] = rep]
  /\ resp' = [resp EXCEPT ![r] = ReturnOutcome(rep).resp]
  /\ answers' = [answers EXCEPT ![r] = @ + 2]
  /\ log' = [log EXCEPT ![r] = ReturnOutcome(rep).log]
  /\ pc' = [pc EXCEPT ![r] = "done"]
  /\ UNCHANGED <<cfg, route, body, query, hook, env, sent, urlSource, procVars, fnVars>>

\* The return handler from its await on: axios.get has settled as rep and
\* the handler redirects.
LookupSettle(r, rep) ==
  /\ reply' = [reply EXCEPT ![r] = rep]
  /\ resp' = [resp EXCEPT ![r] = ReturnOutcome(rep).resp]
  /\ answers' = [answers EXCEPT ![r] = @ + 1]
  /\ log' = [log EXCEPT ![r] = ReturnOutcome(rep).log]
  /\ pc' = [pc EXCEPT ![r] = "done"]
  /\ UNCHANGED <<cfg, route, body, query, hook, env, sent, urlSource, procVars, fnVars>>

\* The awaited axios.get settles.
LookupSettled(r) ==
  /\ server = "running"
  /\ pc[r] = "awaitLookup"
  /\ \E rep \in LookupReplies : LookupSettle(r, rep)

\* Mutant: the webhook looks the order up at the provider before answering.
WebhookHandlerVerifying(r, h) ==
  /\ route' = [route EXCEPT ![r] = "webhook"]
  /\ hook' = [hook EXCEPT ![r] = h]
  /\ sent' = [sent EXCEPT ![r] = Append(@, GetOrder(cfg, h.order_id))]
  /\ resp' = [resp EXCEPT ![r] = WebhookOutcome(h)]
  /\ answers' = [answers EXCEPT ![r] = @ + 1]
  /\ pc' = [pc EXCEPT ![r] = "done"]
  /\ UNCHANGED <<cfg, body, query, env, reply, log, urlSource, procVars, fnVars>>

\* app.post('/cartpanda-webhook'): the whole handler, on payload h.  It logs
\* the event with console.log and answers; a throw is logged and answered 500.
WebhookHandler(r, h) ==
  /\ route' = [route EXCEPT ![r] = "webhook"]
  /\ hook' = [hook EXCEPT ![r] = h]
  /\ resp' = [resp EXCEPT ![r] = WebhookOutcome(h)]
  /\ answers' = [answers EXCEPT ![r] = @ + 1]
  /\ log' = [log EXCEPT ![r] = IF HookThrows(h) THEN <<"TypeError">> ELSE <<>>]
  /\ pc' = [pc EXCEPT ![r] = "done"]
  /\ UNCHANGED <<cfg, body, query, env, sent, reply, urlSource, procVars, fnVars>>

\* A provider event arrives in slot r.
CartpandaWebhook(r) ==
  /\ server = "running"
  /\ pc[r] = "idle"
  /\ \E h \in HookPayloads : WebhookHandler(r, h)

\* A request whose body express.json() rejects never reaches a route: the
\* error middleware answers it.
BodyParseError(r) ==
  /\ server = "running"
  /\ pc[r] = "idle"
  /\ route' = [route EXCEPT ![r] = "rejected"]
  /\ resp' = [resp EXCEPT ![r] = GlobalErrorHandler]
  /\ answers' = [answers EXCEPT ![r] = @ + 1]
  /\ log' = [log EXCEPT ![r] = <<"SyntaxError">>]
  /\ pc' = [pc EXCEPT ![r] = "done"]
  /\ UNCHANGED <<cfg, body, query, hook, env, sent, reply, urlSource, procVars, fnVars>>

\* An exception escapes every try block of the process.
UncaughtException ==
  /\ server = "running"
  /\ server' = OnProcessError("uncaughtException").server
  /\ procLog' = OnProcessError("uncaughtException").procLog
  /\ exitCode' = OnProcessError("uncaughtException").exitCode
  /\ UNCHANGED <<cfg, pc, route, body, query, hook, env, sent, reply, resp,
                 answers, log, urlSource, fnVars>>

\* A promise is rejected with no handler attached.
UnhandledRejection ==
  /\ server = "running"
  /\ server' = OnProcessError("unhandledRejection").server
  /\ procLog' = OnProcessError("unhandledRejection").procLog
  /\ exitCode' = OnProcessError("unhandledRejection").exitCode
  /\ UNCHANGED <<cfg, pc, route, body, query, hook, env, sent, reply, resp,
                 answers, log, urlSource, fnVars>>

\* The response has gone out; nothing of the request is kept.
Discard(r) ==
  /\ server = "running"
  /\ pc[r] = "done"
  /\ pc' = [pc EXCEPT ![r] = "idle"]
  /\ route' = [route EXCEPT ![r] = "none"]
  /\ body' = [body EXCEPT ![r] = NoBody]
  /\ query' = [query EXCEPT ![r] = Undef]
  /\ hook' = [hook EXCEPT ![r] = NoHook]
  /\ env' = [env EXCEPT ![r] = NoEnv]
  /\ sent' = [sent EXCEPT ![r] = <<>>]
  /\ reply' = [reply EXCEPT ![r] = NoReply]
  /\ resp' = [resp EXCEPT ![r] = NoResponse]
  /\ answers' = [answers EXCEPT ![r] = 0]
  /\ log' = [log EXCEPT ![r] = <<>>]
  /\ urlSource' = [urlSource EXCEPT ![r] = "none"]
  /\ UNCHANGED <<cfg, procVars, fnVars>>

\* One request at a time, in slot 1, over the full input domain; the other
\* slots stay idle.
Next ==
  \/ CreateDonationOrder(1)
  \/ CreateOrderSettled(1)
  \/ CartpandaReturn(1)
  \/ LookupSettled(1)
  \/ CartpandaWebhook(1)
  \/ BodyParseError(1)
  \/ UncaughtException
  \/ UnhandledRejection
  \/ Discard(1)

Spec == Init /\ [][Next]_vars

\* ------------------------------------------------------------ splitFullName
\* The names the split is applied to: every string over NameChars up to
\* MaxSplitLen that the name check lets through.
SplitNames ==
  { q \in StringsUpTo(NameChars, MaxSplitLen) :
      ~NameRejected(Body(Undef, Undef, Str(q), Undef)) }

InitSplit ==
  /\ cfg = Config("geo", <<"shopA">>, Undef, Undef)
  /\ IdleServer
  /\ fnArg \in SplitNames
  /\ fnRet = <<>>

\* The handler reaches the split with the validated fullName.
ApplySplit ==
  /\ fnRet = <<>>
  /\ fnRet' = <<splitFullName(fnArg)>>
  /\ UNCHANGED <<cfg, pc, route, body, query, hook, env, sent, reply, resp,
                 answers, log, urlSource, procVars, fnArg>>

NextSplit == ApplySplit

SpecSplit == InitSplit /\ [][NextSplit]_vars

\* ------------------------------------------------------ requests in flight
\* Several requests at once, one per slot, in any interleaving of the
\* handlers' steps.  The inputs are a representative of each outcome class:
\* accepted, rejected by validation, throwing; each branch of the URL chain;
\* a paid and an unpaid order; a failed call.
ConcConfigs ==
  { Config("placeholder", <<"shopA">>, Undef, Undef),
    Config("mock", <<"shopA">>, Undef, Undef),
    Config("geo", <<"shopA">>, Undef, Undef),
    Config("test", <<"shopA">>, Str(<<"true">>), Str(<<"2">>)) }

ConcBodies ==
  { Body(Num(5), Num(1), Str(<<"a">>), Str(<<"d@x.org">>)),
    Body(Str(<<"2">>), Num(1), Str(<<"a", " ", "b">>), Str(<<"d@x.org">>)),
    Body(Undef, Num(1), Str(<<"a">>), Str(<<"d@x.org">>)),
    Body(Num(5), Num(1), Num(5), Str(<<"d@x.org">>)) }

ConcEnvs(rev) ==
  IF UsesEnv(rev)
  THEN {NoEnv, Env(Geo(TRUE, <<"Paris">>, <<" ", "idf">>, <<"FR">>), FALSE)}
  ELSE {NoEnv}

ConcCreateReplies ==
  { Reply("ok", Data("object", "object", Str(<<"https://pay.example/a">>), Num(7), Undef, Undef, Undef), <<>>),
    Reply("ok", Data("object", "undefined", Undef, Undef, Str(<<"https://pay.example/b">>), Undef, Undef), <<>>),
    Reply("ok", EmptyData, <<>>),
    Reply("timeout", NoData, <<"timeout of 10000ms exceeded">>) }

ConcOrderIdParams == {Undef, Str(<<"7">>)}

ConcLookupReplies ==
  { Reply("ok", Data("object", "undefined", Undef, Undef, Undef, Num(3), Undef), <<>>),
    Reply("ok", Data("object", "undefined", Undef, Undef, Undef, Num(1), Str(<<"1">>)), <<>>),
    Reply("timeout", NoData, <<"timeout of 10000ms exceeded">>) }

ConcHookPayloads ==
  { Hook("undefined", Undef, "undefined", Undef),
    Hook("object", Str(<<"order.paid">>), "object", Num(7)) }

InitConc ==
  /\ cfg \in ConcConfigs
  /\ IdleServer
  /\ fnArg = <<>>
  /\ fnRet = <<>>

ConcCreateDonationOrder(r) ==
  /\ server = "running"
  /\ cfg.rev # "link"
  /\ pc[r] = "idle"
  /\ \E b \in ConcBodies, e \in ConcEnvs(cfg.rev) : CreateHandler(r, b, e)

ConcCreateOrderSettled(r) ==
  /\ server = "running"
  /\ pc[r] = "awaitCreate"
  /\ \E rep \in ConcCreateReplies : CreateSettle(r, rep)

ConcCartpandaReturn(r) ==
  /\ server = "running"
  /\ cfg.rev # "link"
  /\ pc[r] = "idle"
  /\ \E q \in ConcOrderIdParams : ReturnHandler(r, q)

\* (part_002's v1 file ends inside this continuation: v1 lookups stay pending)
ConcLookupSettled(r) ==
  /\ server = "running"
  /\ cfg.rev # "v1"
  /\ pc[r] = "awaitLookup"
  /\ \E rep \in ConcLookupReplies : LookupSettle(r, rep)

ConcCartpandaWebhook(r) ==
  /\ server = "running"
  /\ pc[r] = "idle"
  /\ \E h \in ConcHookPayloads : WebhookHandler(r, h)

NextConc ==
  \E r \in Slots :
    \/ ConcCreateDonationOrder(r)
    \/ ConcCreateOrderSettled(r)
    \/ ConcCartpandaReturn(r)
    \/ ConcLookupSettled(r)
    \/ ConcCartpandaWebhook(r)
    \/ Discard(r)

SpecConc == InitConc /\ [][NextConc]_vars

\* Every awaited provider call settles: axios resolves, rejects, or gives up
\* at its 10 s timeout.
CallsSettle ==
  \A r \in Slots :
    WF_vars(ConcCreateOrderSettled(r)) /\ WF_vars(ConcLookupSettled(r))

SpecLive == SpecConc /\ CallsSettle

\* ------------------------------------------------------------------ start-up
\* Mutant: only the shop slug required, as in part_001, in every revision.
EnvironmentCheckSlugOnly(c) == c.CARTPANDA_SHOP_SLUG # <<>>

\* if (!CARTPANDA_API_KEY || !CARTPANDA_SHOP_SLUG) { ...; process.exit(1); }
\* part_001 and the link builder: if (!CARTPANDA_SHOP_SLUG) { ... }
EnvironmentCheck(c) ==
  IF c.rev \in {"mock", "link"}
  THEN c.CARTPANDA_SHOP_SLUG # <<>>
  ELSE Truthy(c.CARTPANDA_API_KEY) /\ c.CARTPANDA_SHOP_SLUG # <<>>

\* A deployment with its API key, shop slug and CURRENCY as given.
StartConfig(rev, key, slug, currency) ==
  [Config(rev, slug, Undef, Undef) EXCEPT !.CARTPANDA_API_KEY = key, !.CURRENCY = currency]

Currencies ==
  {Undef, Str(<<>>), Str(<<"b", "R", "l">>), Str(<<"U", "S", "D">>)}

StartConfigs ==
  { StartConfig(rev, key, slug, cur) :
      rev \in V3Revisions \cup {"v1", "link"},
      key \in {Undef, Str(<<>>), Str(<<"k3y">>)},
      slug \in {<<>>, <<"shopA">>},
      cur \in Currencies }

\* The process as node has loaded the file's first line.
InitStart ==
  /\ cfg \in StartConfigs
  /\ IdleSlots
  /\ server = "starting"
  /\ procLog = "none"
  /\ exitCode = 0
  /\ fnArg = <<>>
  /\ fnRet = <<>>

\* The top of the file runs: the environment check, then app.listen.
Startup ==
  /\ server = "starting"
  /\ IF EnvironmentCheck(cfg)
     THEN /\ server' = "running"
          /\ UNCHANGED <<procLog, exitCode>>
     ELSE /\ server' = "exited"
          /\ procLog' = "Missing required environment variables"
          /\ exitCode' = 1
  /\ UNCHANGED <<cfg, pc, route, body, query, hook, env, sent, reply, resp,
                 answers, log, urlSource, fnVars>>

\* -------------------------------------------------------------- v1 revision
V1Configs ==
  { Config("v1", <<"shopA">>, Undef, Undef), Config("v1", <<"shopB">>, Undef, Undef) }

\* apiResponse.data of the v1 API: order.thank_you_page next to the fields the
\* v3 revisions look at.
V1Data(orderShape, page, oLink, oId, tLink) ==
  [Data("object", orderShape, oLink, oId, tLink, Undef, Undef) EXCEPT !.thank_you_page = page]

ThankYouPages == {Undef, Null, Str(<<>>), Str(<<"https://shop.example/thanks">>)}

V1CreateReplies ==
  { Reply("ok", d, <<>>) :
      d \in {NoData, EmptyData}
            \cup { V1Data("object", page, ol, id, tl) :
                     page \in ThankYouPages,
                     ol \in {Undef, Str(<<"https://pay.example/a">>)},
                     id \in {Undef, Num(7)},
                     tl \in {Undef, Str(<<"https://pay.example/b">>)} }
            \cup { V1Data(os, Undef, Undef, Undef, tl) :
                     os \in {"undefined", "null"},
                     tl \in {Undef, Str(<<"https://pay.example/b">>)} } }
  \cup Failures

InitV1 ==
  /\ cfg \in V1Configs
  /\ IdleServer
  /\ fnArg = <<>>
  /\ fnRet = <<>>

V1CreateDonationOrder(r) ==
  /\ server = "running"
  /\ pc[r] = "idle"
  /\ \E b \in ConcBodies, e \in Envs : CreateHandler(r, b, e)

V1CreateOrderSettled(r) ==
  /\ server = "running"
  /\ pc[r] = "awaitCreate"
  /\ \E rep \in V1CreateReplies : CreateSettle(r, rep)

NextV1 ==
  \/ V1CreateDonationOrder(1)
  \/ V1CreateOrderSettled(1)
  \/ Discard(1)

SpecV1 == InitV1 /\ [][NextV1]_vars

\* ================================================================ properties
\* Vocabulary of the properties, stated on the request and the reply rather
\* than through the handler's own tests.

\* A value is numeric when it is a number, or a string holding a decimal
\* integer (optionally signed, optionally surrounded by whitespace).
IsNumeric(v) ==
  \/ v.t = "number"
  \/ /\ v.t = "string"
     /\ LET t == Trim(v.s) IN
        \/ IsDigits(t)
        \/ (t # <<>> /\ Head(t) \in {"-", "+"} /\ IsDigits(Tail(t)))

Missing(v) == v \in {Undef, Null}

\* missing, non-numeric, zero or negative
AmountInvalid(v) ==
  Missing(v) \/ ~IsNumeric(v) \/ (IsNumeric(v) /\ ToNumber(v).n <= 0)

VariantInvalid(v) == Missing(v) \/ ~IsNumeric(v)

NameMissingOrBlank(v) == Missing(v) \/ (v.t = "string" /\ Trim(v.s) = <<>>)

EmailMissing(v) == Missing(v) \/ v = Str(<<>>)

Answered(r) == pc[r] = "done"
CreateRequest(r) == route[r] = "create"
ReturnRequest(r) == route[r] = "return"
CallFailed(r) == reply[r].kind \in {"network", "timeout", "http"}

\* A link or an id is present in the reply when the field holds a non-empty,
\* non-zero value.
Present(v) == ~(Missing(v) \/ v = Str(<<>>) \/ v = Num(0))
HasOrderLink(d) == d.shape = "object" /\ d.orderShape = "object" /\ Present(d.order_checkout_link)
HasTopLink(d) == d.shape = "object" /\ Present(d.checkout_link)
HasOrderId(d) == d.shape = "object" /\ d.orderShape = "object" /\ Present(d.order_id)

\* C1: a create-donation-order request whose donationAmount is missing,
\* non-numeric, zero or negative is answered 400 with an error, and no
\* outbound provider call is made for it.  (Stated for deployments where the
\* TEST_MODE override does not replace the amount.)
C1_InvalidAmountRejected ==
  \A r \in Slots :
    (CreateRequest(r) /\ ~TestModeOn(cfg) /\ AmountInvalid(body[r].donationAmount))
      => /\ sent[r] = <<>>
         /\ Answered(r)
         /\ resp[r].status = 400
         /\ resp[r].error # ""

\* C2: a request whose variantId is missing or not numeric, whose fullName is
\* missing or blank, or whose email is missing is answered 400 without an
\* outbound call; a request that passes all four checks goes on to order
\* building (it is not answered 400).
C2_InvalidFieldsRejected ==
  \A r \in Slots :
    (CreateRequest(r) /\ ~TestModeOn(cfg)) =>
      /\ ( \/ VariantInvalid(body[r].variantId)
           \/ NameMissingOrBlank(body[r].fullName)
           \/ EmailMissing(body[r].email) )
           => (sent[r] = <<>> /\ Answered(r) /\ resp[r].status = 400)
      /\ ( /\ ~AmountInvalid(body[r].donationAmount)
           /\ ~VariantInvalid(body[r].variantId)
           /\ body[r].fullName.t = "string"
           /\ ~NameMissingOrBlank(body[r].fullName)
           /\ ~EmailMissing(body[r].email) )
           => resp[r].status # 400

\* C3: when the create-order reply carries an order-level checkout link, the
\* endpoint answers 200 with checkoutUrl equal to that link, whatever else
\* (top-level checkout_link, order.id) the reply carries.
C3_OrderLinkVerbatim ==
  \A r \in Slots :
    ( /\ CreateRequest(r) /\ Answered(r) /\ cfg.rev \in V3Revisions
      /\ reply[r].kind = "ok" /\ HasOrderLink(reply[r].data) )
      => /\ resp[r].status = 200
         /\ resp[r].checkoutUrl = reply[r].data.order_checkout_link
         /\ resp[r].error = ""

C3_Witness ==
  \E r \in Slots :
    /\ CreateRequest(r) /\ Answered(r) /\ reply[r].kind = "ok"
    /\ HasOrderLink(reply[r].data)
    /\ HasTopLink(reply[r].data)
    /\ reply[r].data.checkout_link # reply[r].data.order_checkout_link
    /\ HasOrderId(reply[r].data)
    /\ resp[r].checkoutUrl = reply[r].data.order_checkout_link

\* C4: the checkout URL follows a strict priority chain: the top-level
\* checkout_link is used only when no order-level link is present, it wins
\* over the URL synthesized from order.id, and the synthesized URL is used
\* only when both links are absent.
C4_PriorityChain ==
  \A r \in Slots :
    ( /\ CreateRequest(r) /\ Answered(r) /\ cfg.rev \in V3Revisions
      /\ reply[r].kind = "ok" ) =>
      LET d == reply[r].data IN
      /\ urlSource[r] = "top_link" => ~HasOrderLink(d)
      /\ (HasTopLink(d) /\ ~HasOrderLink(d))
           => (urlSource[r] = "top_link" /\ resp[r] = Json200(d.checkout_link))
      /\ urlSource[r] = "order_id" => (~HasOrderLink(d) /\ ~HasTopLink(d))

C4_Witness ==
  \E r \in Slots :
    /\ CreateRequest(r) /\ Answered(r) /\ reply[r].kind = "ok"
    /\ ~HasOrderLink(reply[r].data)
    /\ HasTopLink(reply[r].data)
    /\ HasOrderId(reply[r].data)
    /\ urlSource[r] = "top_link"
    /\ resp[r].checkoutUrl = reply[r].data.checkout_link

\* The text of an order id inside a URL.
IdText(id) == IF id = Num(7) THEN <<"7">> ELSE id.s

\* C5: when the reply carries an order id and no checkout link at either
\* level, the endpoint answers 200 with checkoutUrl exactly
\* https://{shop}.mycartpanda.com/checkout?order_id={id}.
C5_SynthesizedUrl ==
  \A r \in Slots :
    ( /\ CreateRequest(r) /\ Answered(r) /\ cfg.rev \in V3Revisions
      /\ reply[r].kind = "ok"
      /\ HasOrderId(reply[r].data)
      /\ ~HasOrderLink(reply[r].data) /\ ~HasTopLink(reply[r].data) )
      => /\ resp[r].status = 200
         /\ resp[r].checkoutUrl =
              Str(<<"https://">> \o cfg.CARTPANDA_SHOP_SLUG
                  \o <<".mycartpanda.com/checkout?order_id=">>
                  \o IdText(reply[r].data.order_id))

C5_Witness ==
  \E r \in Slots :
    /\ CreateRequest(r) /\ Answered(r) /\ reply[r].kind = "ok"
    /\ reply[r].data.order_id = Num(7)
    /\ HasOrderId(reply[r].data)
    /\ ~HasOrderLink(reply[r].data) /\ ~HasTopLink(reply[r].data)
    /\ cfg.CARTPANDA_SHOP_SLUG = <<"shopB">>
    /\ resp[r].checkoutUrl =
         Str(<<"https://", "shopB", ".mycartpanda.com/checkout?order_id=", "7">>)

\* C6: when the create-order call succeeds but the reply carries neither a
\* checkout link nor an order id, the endpoint answers 500 with the 'No
\* checkout URL returned' error, for every such reply including an empty or
\* null body.
C6_NoUrlExplained ==
  \A r \in Slots :
    ( /\ CreateRequest(r) /\ Answered(r) /\ cfg.rev \in V3Revisions
      /\ reply[r].kind = "ok"
      /\ ~HasOrderLink(reply[r].data) /\ ~HasTopLink(reply[r].data)
      /\ ~HasOrderId(reply[r].data) )
      => /\ resp[r].status = 500
         /\ resp[r].error \in {ErrNoUrlCartPanda, ErrNoUrlMock}

\* The paid sentinel of the v3 API: payment_status the number 3, or
\* status_id the string '3'.
PaidSentinel(d) ==
  d.shape = "object"
  /\ (d.payment_status = JsVal("number", 3, <<>>) \/ d.status_id = JsVal("string", 0, <<"3">>))

\* C7: cartpanda_return redirects to /thanks.html if and only if the lookup
\* succeeded and the fetched order's status is the paid sentinel; every other
\* outcome redirects to /error.html.
C7_ThanksIffPaid ==
  \A r \in Slots :
    (ReturnRequest(r) /\ Answered(r)) =>
      /\ resp[r].status = 302
      /\ resp[r].location \in {"/thanks.html", "/error.html"}
      /\ resp[r].location = "/thanks.html"
           <=> (reply[r].kind = "ok" /\ PaidSentinel(reply[r].data))

C7_Witness ==
  \E r \in Slots :
    /\ ReturnRequest(r) /\ Answered(r)
    /\ reply[r].kind = "ok"
    /\ reply[r].data.payment_status = Num(3)
    /\ resp[r].location = "/thanks.html"

\* C8: any lookup failure (network error, timeout, non-2xx) redirects to
\* /error.html; a request without order_id redirects to /error.html without
\* any outbound provider call.
C8_FailureIsNotPaid ==
  \A r \in Slots :
    ReturnRequest(r) =>
      /\ (Answered(r) /\ CallFailed(r)) => resp[r] = Redirect("/error.html")
      /\ query[r] = Undef =>
           (Answered(r) /\ resp[r] = Redirect("/error.html") /\ sent[r] = <<>>)

C8_Witness ==
  \E r \in Slots :
    /\ ReturnRequest(r) /\ Answered(r)
    /\ reply[r].kind = "timeout"
    /\ Len(sent[r]) = 1
    /\ resp[r].location = "/error.html"

\* C10: when the outbound create-order call fails (network error, timeout or
\* non-2xx), the client receives 500 with the fixed message 'Could not
\* create order, please try again.' and nothing of the provider's error
\* payload; the payload goes to the server log only.
C10_GenericFailure ==
  \A r \in Slots :
    (CreateRequest(r) /\ Answered(r) /\ CallFailed(r)) =>
      /\ resp[r].status = 500
      /\ resp[r].error = "Could not create order, please try again."
      /\ resp[r].checkoutUrl = Undef
      /\ \A i \in 1..Len(reply[r].payload) : resp[r].error # reply[r].payload[i]
      /\ log[r] = reply[r].payload

C10_Witness ==
  \E r \in Slots :
    /\ CreateRequest(r) /\ Answered(r)
    /\ reply[r].kind = "http"
    /\ reply[r].payload = <<"provider: invalid token">>
    /\ resp[r].status = 500
    /\ log[r] = <<"provider: invalid token">>

\* ---- name splitting, stated on the positions of the name's characters
TokenStarts(q) ==
  { i \in 1..Len(q) : q[i] \notin Whitespace /\ (i = 1 \/ q[i - 1] \in Whitespace) }

TokenEnds(q) ==
  { i \in 1..Len(q) : q[i] \notin Whitespace /\ (i = Len(q) \/ q[i + 1] \in Whitespace) }

TokenCount(q) == Cardinality(TokenStarts(q))

Nth(S, n) == CHOOSE i \in S : Cardinality({ j \in S : j < i }) = n - 1

Token(q, n) == SubSeq(q, Nth(TokenStarts(q), n), Nth(TokenEnds(q), n))

\* q from its n-th token to the end of its last token.
FromToken(q, n) == SubSeq(q, Nth(TokenStarts(q), n), Nth(TokenEnds(q), TokenCount(q)))

\* Every run of whitespace replaced by one space.
RECURSIVE CollapseRuns(_)
CollapseRuns(q) ==
  IF q = <<>> THEN <<>>
  ELSE IF Head(q) \notin Whitespace THEN <<Head(q)>> \o CollapseRuns(Tail(q))
  ELSE IF Len(q) > 1 /\ q[2] \in Whitespace THEN CollapseRuns(Tail(q))
  ELSE <<" ">> \o CollapseRuns(Tail(q))

SplitDone == fnRet # <<>>

\* C9 as stated: for every accepted fullName, first name is the first
\* whitespace-separated token of the trimmed name; last name is empty for one
\* token and otherwise the remaining tokens joined by single spaces, so that
\* first + ' ' + last reproduces the trimmed name with whitespace runs
\* collapsed.
C9_SplitReproducesName ==
  SplitDone =>
    LET res == fnRet[1] IN
    /\ res.first = Token(fnArg, 1)
    /\ TokenCount(fnArg) = 1 => res.last = <<>>
    /\ TokenCount(fnArg) > 1 => res.last = CollapseRuns(FromToken(fnArg, 2))
    /\ res.first \o <<" ">> \o res.last = CollapseRuns(FromToken(fnArg, 1))

\* C9 amended: as above, but first + ' ' + last reproduces the collapsed
\* trimmed name only when there are two or more tokens; for a single token
\* the first name alone is the trimmed name.
C9_SplitTokens ==
  SplitDone =>
    LET res == fnRet[1] IN
    /\ res.first = Token(fnArg, 1)
    /\ TokenCount(fnArg) = 1 => res.last = <<>>
    /\ TokenCount(fnArg) > 1 => res.last = CollapseRuns(FromToken(fnArg, 2))
    /\ TokenCount(fnArg) > 1 =>
         res.first \o <<" ">> \o res.last = CollapseRuns(FromToken(fnArg, 1))
    /\ TokenCount(fnArg) = 1 => res.first = CollapseRuns(FromToken(fnArg, 1))

C9_Witness ==
  /\ SplitDone
  /\ TokenCount(fnArg) = 3
  /\ \E i \in 1..Len(fnArg) : fnArg[i] = "\t"
  /\ Len(fnRet[1].last) = 3
  /\ fnRet[1].last[2] = " "

\* ---------------------------------------------------------------- C11
\* C11 -- No retries: no request ever has more than one outbound provider
\* call issued for it, and a request whose call failed (no connection, the
\* timeout, a non-2xx status) has been answered with a failure -- 500 without
\* a checkoutUrl for create-donation-order, the redirect to /error.html for
\* cartpanda_return -- with that one call the only one made.
C11_NoRetry ==
  \A r \in Slots :
    /\ Len(sent[r]) <= 1
    /\ CallFailed(r) =>
         /\ Answered(r)
         /\ Len(sent[r]) = 1
         /\ CreateRequest(r) => resp[r].status = 500 /\ resp[r].checkoutUrl = Undef
         /\ ReturnRequest(r) => resp[r].location = "/error.html"

\* A create-donation-order request whose one call timed out, answered 500.
C11_Witness ==
  \E r \in Slots :
    /\ CreateRequest(r) /\ Answered(r)
    /\ reply[r].kind = "timeout"
    /\ Len(sent[r]) = 1 /\ sent[r][1].method = "POST"
    /\ resp[r].status = 500

\* ---------------------------------------------------------------- C12
\* Everything the server holds for the request in slot r.
Request(r) ==
  <<pc[r], route[r], body[r], query[r], hook[r], env[r], sent[r], reply[r],
    resp[r], answers[r], log[r], urlSource[r]>>

\* What a request brings with it and what the provider answered to its call.
Input(r) == <<route[r], body[r], query[r], hook[r], env[r], reply[r]>>

\* What the request caused: its outbound calls, its response, its log lines.
Effect(r) == <<sent[r], resp[r], log[r], urlSource[r]>>

\* A step touches one request at most, and never the configuration.
OneRequestPerStep ==
  /\ cfg' = cfg
  /\ \E r \in Slots : \A q \in Slots \ {r} : Request(q)' = Request(q)

\* Requests that completed on the same input caused the same effect, whatever
\* else was in flight.
SameInputSameEffect ==
  \A r, q \in Slots :
    (pc[r] = pc[q] /\ Input(r) = Input(q)) => Effect(r) = Effect(q)

\* C12 -- Request isolation: with several requests in flight and any
\* interleaving of their steps, each step reads and writes the state of one
\* request only and leaves the configuration alone, and what a request sends
\* and is answered is determined by its own input, the configuration and the
\* provider's reply to its own call.
C12_RequestIsolation == [][OneRequestPerStep /\ SameInputSameEffect']_vars

\* Two requests answered side by side, one with a checkout URL and one
\* refused, neither having disturbed the other.
C12_Witness ==
  \E r, q \in Slots :
    /\ r # q /\ Answered(r) /\ Answered(q)
    /\ CreateRequest(r) /\ CreateRequest(q)
    /\ resp[r].status = 200 /\ urlSource[r] = "order_link"
    /\ resp[q].status = 500 /\ urlSource[q] = "none"

\* ---------------------------------------------------------------- C13
InFlight(r) == pc[r] \in {"awaitCreate", "awaitLookup"}

\* The response count of every request: none before the handler answers, one
\* from then on; the one response is 200, 400 or 500 for create-donation-order
\* and a redirect to one of the two pages for cartpanda_return; a call that
\* timed out is answered as a failed call.
AnsweredOnce ==
  \A r \in Slots :
    /\ answers[r] = IF Answered(r) THEN 1 ELSE 0
    /\ (Answered(r) /\ CreateRequest(r)) => resp[r].status \in {200, 400, 500}
    /\ (Answered(r) /\ ReturnRequest(r)) =>
         /\ resp[r].status = 302
         /\ resp[r].location \in {"/thanks.html", "/error.html"}
    /\ (Answered(r) /\ reply[r].kind = "timeout") =>
         \/ CreateRequest(r) /\ resp[r].status = 500
         \/ ReturnRequest(r) /\ resp[r].location = "/error.html"

\* C13 -- Termination: provided every outbound call settles (returns, fails
\* or hits the timeout), every request that is waiting on its call is
\* eventually answered, and a request is answered exactly once: one of
\* 200/400/500 for create-donation-order, one redirect for cartpanda_return,
\* a timed-out call counting as a failed one.
C13_EventuallyAnsweredOnce ==
  /\ []AnsweredOnce
  /\ \A r \in Slots : InFlight(r) ~> Answered(r)

\* A cartpanda_return request whose lookup timed out, redirected once.
C13_Witness ==
  \E r \in Slots :
    /\ ReturnRequest(r) /\ Answered(r) /\ answers[r] = 1
    /\ reply[r].kind = "timeout"
    /\ resp[r] = Redirect("/error.html")

\* ---------------------------------------------------------------- C14
\* The request in slot r had an order document posted for it.
Posted(r) == Len(sent[r]) >= 1 /\ sent[r][1].method = "POST"
Doc(r) == sent[r][1].data[1]

\* The four monetary fields of the document carry one value.
OneAmount(d) ==
  /\ d.subtotal_amount = d.products_total_amount
  /\ d.products_total_amount = d.total_amount
  /\ d.total_amount = d.payment.amount

\* Exactly one line item, quantity 1, for the variant with number v.
OneLineItem(d, v) ==
  /\ Len(d.line_items) = 1
  /\ d.line_items[1].quantity = 1
  /\ d.line_items[1].variant_id = v

\* C14 as stated -- every posted order document carries the request's
\* donation amount in all four monetary fields and one line item, quantity 1,
\* for the numeric value of the request's variant reference.
C14_DocMatchesRequest ==
  \A r \in Slots :
    Posted(r) =>
      /\ OneAmount(Doc(r))
      /\ ToNumber(Doc(r).total_amount) = ToNumber(body[r].donationAmount)
      /\ OneLineItem(Doc(r), ToNumber(body[r].variantId))

\* C14 amended -- every posted order document has its four monetary fields
\* equal to one another and exactly one line item of quantity 1; with
\* TEST_MODE 'true' (part_000) the amount is the number 1 and the variant is
\* the number of DONATION_VARIANT_ID, whatever the request said; otherwise
\* the amount is the request's donation amount and the variant the numeric
\* value of the request's variant reference.
C14_DocMatchesEffectiveRequest ==
  \A r \in Slots :
    Posted(r) =>
      /\ OneAmount(Doc(r))
      /\ IF cfg.rev = "test" /\ cfg.TEST_MODE = Str(<<"true">>)
         THEN /\ Doc(r).total_amount = Num(1)
              /\ OneLineItem(Doc(r), ToNumber(cfg.DONATION_VARIANT_ID))
         ELSE /\ ToNumber(Doc(r).total_amount) = ToNumber(body[r].donationAmount)
              /\ OneLineItem(Doc(r), ToNumber(body[r].variantId))

\* Both cases posted: outside test mode a request for "2" of variant "2",
\* or in test mode a request for 5 that went out as 1.
C14_Witness ==
  \E r \in Slots :
    /\ Posted(r)
    /\ \/ /\ ~TestModeOn(cfg)
          /\ body[r].variantId = Str(<<"2">>)
          /\ Doc(r).line_items[1].variant_id = Num(2)
       \/ /\ TestModeOn(cfg)
          /\ body[r].donationAmount = Num(5)
          /\ Doc(r).total_amount = Num(1)

\* ---------------------------------------------------------------- C15
\* C15 -- Fixed payment method: every posted order document has payment type
\* 'cc' and carries the dummy boleto fields boleto_link, boleto_code and
\* boleto_limit_date with their fixed values, whatever the request contained.
C15_FixedPayment ==
  \A r \in Slots :
    Posted(r) =>
      /\ Doc(r).payment.type = "cc"
      /\ Doc(r).payment.boleto_link = "N/A"
      /\ Doc(r).payment.boleto_code = "N/A"
      /\ Doc(r).payment.boleto_limit_date = "tomorrow"

\* A donation of 5 posted outside test mode, paid by 'cc'.
C15_Witness ==
  \E r \in Slots :
    /\ Posted(r) /\ ~TestModeOn(cfg)
    /\ body[r].donationAmount = Num(5)
    /\ Doc(r).payment.amount = Num(5)
    /\ Doc(r).payment.type = "cc"

\* ---------------------------------------------------------------- C16
\* The request in slot r ended in a failure: a 4xx/5xx answer or the
\* redirect to the error page.
Failed(r) ==
  Answered(r) /\ (resp[r].status \in {400, 500} \/ resp[r].location = "/error.html")

\* C16 -- Server availability: whatever has happened -- a request refused by
\* validation, a provider error, an exception or a rejected promise that
\* reached the process-level handlers -- the process is running, and once
\* the earlier requests are out of the way the next request of either kind
\* is accepted.
C16_ServerStaysUp ==
  /\ server = "running"
  /\ (\A r \in Slots : pc[r] = "idle") =>
       ENABLED CreateDonationOrder(1) /\ ENABLED CartpandaReturn(1)

\* An uncaught exception has been logged, a request has failed on a provider
\* error, and the server is still there.
C16_Witness ==
  /\ server = "running"
  /\ procLog = "uncaughtException"
  /\ \E r \in Slots : Failed(r) /\ CallFailed(r)

\* ---------------------------------------------------------------- C17
\* The location fields of the posted document's billing address.
Location(r) == Doc(r).billing_address.address

Empty(v) == v \in {Undef, Null, Str(<<>>)}

\* The geolocation of the request's IP names a city.
GeoHasCity(r) == env[r].geo.found /\ Trim(env[r].geo.city) # <<>>

\* The city sent is the geolocated one when the revision looks it up and the
\* lookup names one; otherwise the fabricated city (part_000) or 'N/A'.
CityByPriority(r) ==
  IF UsesEnv(cfg.rev) /\ GeoHasCity(r)
  THEN Location(r).city = Str(Trim(env[r].geo.city))
  ELSE Location(r).city = IF cfg.rev = "test" THEN Str(<<"Faketown">>) ELSE Str(<<"N/A">>)

\* The region code sent by part_000 is the geolocated region, upper-cased,
\* when there is one and 'XX' otherwise.
RegionByPriority(r) ==
  cfg.rev = "test" =>
    IF env[r].geo.found /\ Trim(env[r].geo.region) # <<>>
    THEN Location(r).province_code = Str(ToUpperCase(Trim(env[r].geo.region)))
    ELSE Location(r).province_code = Str(<<"XX">>)

WebhookRequest(r) == route[r] = "webhook"

\* C18 -- Webhook acknowledgement: every provider event posted to
\* /cartpanda-webhook is answered at once; the answer is 200 unless reading
\* the payload throws (no parsed body), in which case it is 500; it carries
\* the status and its reason phrase and nothing else (no checkoutUrl, no
\* error object, no redirect); no outbound call is made for it and no reply
\* is awaited.
C18_WebhookAcknowledged ==
  \A r \in Slots :
    WebhookRequest(r) =>
      /\ Answered(r) /\ answers[r] = 1
      /\ resp[r].status = IF hook[r].shape = "undefined" THEN 500 ELSE 200
      /\ resp[r].text = IF resp[r].status = 200 THEN "OK" ELSE "Internal Server Error"
      /\ resp[r].checkoutUrl = Undef /\ resp[r].error = "" /\ resp[r].location = ""
      /\ sent[r] = <<>>
      /\ reply[r] = NoReply

\* An order.paid event for order 7, acknowledged with 200.
C18_Witness ==
  \E r \in Slots :
    /\ WebhookRequest(r) /\ Answered(r)
    /\ hook[r].event = Str(<<"order.paid">>) /\ hook[r].order_id = Num(7)
    /\ resp[r].status = 200

\* ---------------------------------------------------------------- C19
\* The lookup of the request in slot r came back with an order object.
LookedUp(r) ==
  ReturnRequest(r) /\ Answered(r) /\ reply[r].kind = "ok" /\ reply[r].data.shape = "object"

\* C19 -- Paid-sentinel typing (v3): the redirect is to /thanks.html when
\* payment_status is the number 3 or status_id is the string '3'; a
\* payment_status of '3' or 'paid' (strings) and a status_id of 3 (number)
\* do not count, and without one of the two sentinels the redirect is to
\* /error.html.
C19_SentinelTyping ==
  \A r \in Slots :
    LookedUp(r) =>
      LET d == reply[r].data
          numberThree == d.payment_status = Num(3)
          stringThree == d.status_id = Str(<<"3">>)
      IN /\ (numberThree \/ stringThree) => resp[r].location = "/thanks.html"
         /\ (d.payment_status \in {Str(<<"3">>), Str(<<"paid">>)} /\ ~stringThree)
              => resp[r].location = "/error.html"
         /\ (d.status_id = Num(3) /\ ~numberThree) => resp[r].location = "/error.html"
         /\ (~numberThree /\ ~stringThree) => resp[r].location = "/error.html"

\* Both fields say three, each in the other's type: not paid.
C19_Witness ==
  \E r \in Slots :
    /\ LookedUp(r)
    /\ reply[r].data.payment_status = Str(<<"3">>)
    /\ reply[r].data.status_id = Num(3)
    /\ resp[r].location = "/error.html"

\* ---------------------------------------------------------------- C20
ValidationErrors == {ErrAmount, ErrVariant, ErrName, ErrEmail}

\* A JSON success: a checkoutUrl that is a non-empty value, and no error.
SuccessShape(rs) ==
  /\ rs.status = 200
  /\ ~Empty(rs.checkoutUrl) /\ Truthy(rs.checkoutUrl)
  /\ rs.error = "" /\ rs.location = ""

\* A JSON failure: an error message, and no checkoutUrl.
FailureShape(rs) ==
  /\ rs.status \in {400, 500}
  /\ rs.error # ""
  /\ rs.checkoutUrl = Undef /\ rs.location = ""

\* C20 -- Response shape of create-donation-order (v3 revisions): every
\* response, including the one the error middleware gives to an unparsable
\* body, is either 200 with a non-empty checkoutUrl and no error, or 400/500
\* with an error and no checkoutUrl; 400 comes only from the validation
\* block, before any outbound call; 200 comes only after the one outbound
\* call has succeeded.
C20_ResponseShape ==
  \A r \in Slots :
    (Answered(r) /\ route[r] \in {"create", "rejected"} /\ cfg.rev \in V3Revisions) =>
      /\ SuccessShape(resp[r]) \/ FailureShape(resp[r])
      /\ resp[r].status = 400 =>
           /\ resp[r].error \in ValidationErrors
           /\ Validate(cfg, body[r]) \in {"amount", "variant", "name", "email"}
           /\ sent[r] = <<>>
      /\ resp[r].status = 200 =>
           /\ Len(sent[r]) = 1 /\ sent[r][1].method = "POST"
           /\ reply[r].kind = "ok"

\* A request answered 200 with the provider's top-level link, although the
\* reply also carried an empty order-level link.
C20_Witness ==
  \E r \in Slots :
    /\ CreateRequest(r) /\ Answered(r)
    /\ reply[r].kind = "ok" /\ reply[r].data.order_checkout_link = Str(<<>>)
    /\ resp[r] = Json200(Str(<<"https://pay.example/b">>))

\* ---------------------------------------------------------------- C21
\* The answer to the request in slot r is 400 with message m.
Refused(r, m) == resp[r] = JsonError(400, m)

\* How many of the four checks would refuse the request when run alone.
RefusingChecks(r) ==
  (IF AmountRejected(cfg, body[r]) THEN 1 ELSE 0)
  + (IF VariantRejected(cfg, body[r]) THEN 1 ELSE 0)
  + (IF NameRejected(body[r]) THEN 1 ELSE 0)
  + (IF EmailRejected(body[r]) THEN 1 ELSE 0)

FlagIsTrue == cfg.rev = "test" /\ cfg.TEST_MODE = Str(<<"true">>)

\* DONATION_VARIANT_ID is unset or does not read as a number.
NoTestVariant ==
  cfg.DONATION_VARIANT_ID = Undef \/ IsNaN(ToNumber(cfg.DONATION_VARIANT_ID))

\* C22 -- Test mode: with TEST_MODE 'true' no request is refused for its
\* amount, every request is refused with the variant-ID error when
\* DONATION_VARIANT_ID is unset or non-numeric, and a posted document carries
\* amount 1 and the variant DONATION_VARIANT_ID whatever the request said.
\* With any other value of the flag the request's own amount and variant are
\* validated and posted.
C22_TestModeOverride ==
  \A r \in Slots :
    CreateRequest(r) =>
      IF FlagIsTrue
      THEN /\ ~Refused(r, ErrAmount)
           /\ NoTestVariant => Refused(r, ErrVariant)
           /\ Posted(r) =>
                /\ Doc(r).total_amount = Num(1)
                /\ Doc(r).payment.amount = Num(1)
                /\ Doc(r).line_items[1].variant_id = ToNumber(cfg.DONATION_VARIANT_ID)
      ELSE /\ Missing(body[r].donationAmount) => Refused(r, ErrAmount)
           /\ (~Missing(body[r].donationAmount) /\ Missing(body[r].variantId))
                => (Refused(r, ErrVariant) \/ Refused(r, ErrAmount))
           /\ Posted(r) =>
                /\ ToNumber(Doc(r).total_amount) = ToNumber(body[r].donationAmount)
                /\ Doc(r).line_items[1].variant_id = ToNumber(body[r].variantId)

\* In test mode a request that names neither amount nor variant is posted
\* as a donation of 1 for variant 2.
C22_Witness ==
  \E r \in Slots :
    /\ FlagIsTrue /\ Posted(r)
    /\ body[r].donationAmount = Undef /\ body[r].variantId = Undef
    /\ Doc(r).total_amount = Num(1)
    /\ Doc(r).line_items[1].variant_id = Num(2)

\* ---------------------------------------------------------------- C23
\* The currency code the deployment is configured with, in lower case: the
\* value of CURRENCY, or the US dollar when CURRENCY is unset or empty.
ConfiguredCode ==
  ToLowerCase(IF cfg.CURRENCY \in {Undef, Str(<<>>)} THEN <<"u", "s", "d">> ELSE cfg.CURRENCY.s)

\* The document's two currency fields agree and hold the configured code in
\* upper case (upper = TRUE) or in lower case.
CurrencyIs(d, upper) ==
  /\ d.currency = d.presentment_currency
  /\ d.currency = IF upper THEN ToUpperCase(ConfiguredCode) ELSE ConfiguredCode

\* C23 as stated -- currency = presentment_currency = the configured code or
\* the US dollar default, in lower case in the revisions with placeholder
\* addresses and in upper case in the revisions that geolocate the client.
C23_CurrencyCaseByAddressing ==
  \A r \in Slots :
    Posted(r) => CurrencyIs(Doc(r), UsesEnv(cfg.rev))

\* C23 amended -- currency = presentment_currency = the configured code or
\* the US dollar default, in upper case in part_000 and the v1 revision and in
\* lower case in paymentrack/server.js (which also geolocates), part_001 and
\* the first revision of part_002, whatever the request contains.
C23_CurrencyNormalized ==
  \A r \in Slots :
    Posted(r) => CurrencyIs(Doc(r), cfg.rev \in {"test", "v1"})

\* CURRENCY=bRl: paymentrack/server.js posts 'brl', part_000 posts 'BRL'.
C23_Witness ==
  \E r \in Slots :
    /\ Posted(r) /\ cfg.CURRENCY = Str(<<"b", "R", "l">>)
    /\ \/ cfg.rev = "geo" /\ Doc(r).currency = <<"b", "r", "l">>
       \/ cfg.rev = "test" /\ Doc(r).currency = <<"B", "R", "L">>

\* ---------------------------------------------------------------- C24
\* order.thank_you_page of a reply body, undefined when the body or its order
\* is missing.
ThankYouPage(d) ==
  IF d.shape = "object" /\ d.orderShape = "object" THEN d.thank_you_page ELSE Undef

\* C24 -- v1 revision: after a successful provider call the client gets 200
\* with exactly order.thank_you_page when the reply has one, and otherwise
\* 500 with 'No thank_you_page returned ...' -- also when the reply carries
\* an order-level or top-level checkout_link or an order id.
C24_ThankYouPageOnly ==
  \A r \in Slots :
    (cfg.rev = "v1" /\ CreateRequest(r) /\ Answered(r) /\ reply[r].kind = "ok") =>
      IF Present(ThankYouPage(reply[r].data))
      THEN resp[r] = Json200(ThankYouPage(reply[r].data))
      ELSE resp[r] = JsonError(500, ErrNoThankYouPage)

\* A v1 reply without thank_you_page but with both links and an order id:
\* answered 500.
C24_Witness ==
  \E r \in Slots :
    /\ cfg.rev = "v1" /\ CreateRequest(r) /\ Answered(r) /\ reply[r].kind = "ok"
    /\ ThankYouPage(reply[r].data) = Undef
    /\ HasOrderLink(reply[r].data) /\ HasTopLink(reply[r].data) /\ HasOrderId(reply[r].data)
    /\ resp[r] = JsonError(500, ErrNoThankYouPage)

\* ------------------------------------------------------------ transformEmail
\* The link builder (paymentrack/server.js, second revision) alters the
\* customer's email before putting it in the checkout link.  Math.random is a
\* free choice: each helper is the SET of results it can return.
MaxEmailLen == 5

LowerAlphabet == <<"a", "b", "c", "d", "e", "f", "g", "h", "i", "j", "k", "l", "m",
                   "n", "o", "p", "q", "r", "s", "t", "u", "v", "w", "x", "y", "z">>
UpperAlphabet == <<"A", "B", "C", "D", "E", "F", "G", "H", "I", "J", "K", "L", "M",
                   "N", "O", "P", "Q", "R", "S", "T", "U", "V", "W", "X", "Y", "Z">>

\* toLowerCase of one character
CharToLowerCase(ch) ==
  IF \E k \in 1..Len(UpperAlphabet) : UpperAlphabet[k] = ch
  THEN LowerAlphabet[CHOOSE k \in 1..Len(UpperAlphabet) : UpperAlphabet[k] = ch]
  ELSE ch

DigitChars == {"0", "1", "2", "3", "4", "5", "6", "7", "8", "9"}
SymbolChars == {".", "-", "_"}

isVowel(ch) == ch \in {"a", "e", "i", "o", "u", "A", "E", "I", "O", "U"}

\* str.slice(0, i) + str.slice(i + 1), positions counted from 1
RemoveAt(str, i) == SubSeq(str, 1, i - 1) \o SubSeq(str, i + 1, Len(str))

\* str.slice(0, i) + ch + str.slice(i), positions counted from 1
InsertAt(str, i, ch) == SubSeq(str, 1, i - 1) \o <<ch>> \o SubSeq(str, i, Len(str))

removeOneDigit(str) ==
  LET digitIndices == {i \in 1..Len(str) : str[i] \in DigitChars} IN
    IF digitIndices = {}
    THEN {[newStr |-> str, changed |-> FALSE]}
    ELSE {[newStr |-> RemoveAt(str, i), changed |-> TRUE] : i \in digitIndices}

removeOneSymbol(str) ==
  LET symbolIndices == {i \in 1..Len(str) : str[i] \in SymbolChars} IN
    IF symbolIndices = {}
    THEN {[newStr |-> str, changed |-> FALSE]}
    ELSE {[newStr |-> RemoveAt(str, i), changed |-> TRUE] : i \in symbolIndices}

vowels == {"a", "e", "i", "o", "u"}
allConsonants == {LowerAlphabet[k] : k \in 1..Len(LowerAlphabet)} \ vowels

pickDifferentVowel(exclude) ==
  {v \in vowels : CharToLowerCase(v) # CharToLowerCase(exclude)}

pickDifferentConsonant(exclude) ==
  {c \in allConsonants : c # CharToLowerCase(exclude)}

\* the letter that may take the place of a removed character
Replacement(removedChar) ==
  IF isVowel(removedChar) THEN pickDifferentVowel(removedChar)
  ELSE pickDifferentConsonant(removedChar)

applyAlternativeTransform(localPart) ==
  LET n == Len(localPart)
      \* case 1: one or two random digits appended
      added == {localPart \o <<a>> : a \in DigitChars}
                 \cup {localPart \o <<a, b>> : a, b \in DigitChars}
      \* case 2: the last character removed, then perhaps a letter appended
      last == IF n = 0 THEN {localPart}
              ELSE {RemoveAt(localPart, n)}
                     \cup {RemoveAt(localPart, n) \o <<ch>> :
                             ch \in Replacement(localPart[n])}
      \* case 3: a random character removed, then perhaps a letter put there
      any == IF n = 0 THEN {localPart}
             ELSE UNION { {RemoveAt(localPart, i)}
                            \cup {InsertAt(RemoveAt(localPart, i), i, ch) :
                                    ch \in Replacement(localPart[i])} :
                          i \in 1..n }
  IN added \cup last \cup any

\* String.prototype.split with a one-character separator
RECURSIVE SplitOn(_, _)
SplitOn(str, sep) ==
  IF \A i \in 1..Len(str) : str[i] # sep THEN <<str>>
  ELSE LET i == CHOOSE j \in 1..Len(str) :
                  str[j] = sep /\ \A k \in 1..(j - 1) : str[k] # sep
       IN <<SubSeq(str, 1, i - 1)>> \o SplitOn(SubSeq(str, i + 1, Len(str)), sep)

\* Mutant: the symbol removal tried before the digit removal.
transformEmailSymbolFirst(email) ==
  LET parts == SplitOn(email, "@")
      localPart == parts[1]
      symbol == removeOneSymbol(localPart)
      digit == removeOneDigit(localPart)
      newStr == IF \E x \in symbol : x.changed THEN {x.newStr : x \in symbol}
                ELSE IF \E x \in digit : x.changed THEN {x.newStr : x \in digit}
                ELSE applyAlternativeTransform(localPart)
  IN IF Len(parts) < 2 \/ parts[2] = <<>> THEN {email}
     ELSE {s \o <<"@">> \o parts[2] : s \in newStr}

\* const [localPart, domain] = email.split('@'): the first two pieces, any
\* further piece is dropped; !domain holds for a missing or empty second piece.
transformEmail(email) ==
  LET parts == SplitOn(email, "@")
      localPart == parts[1]
      digit == removeOneDigit(localPart)
      symbol == removeOneSymbol(localPart)
      newStr == IF \E x \in digit : x.changed THEN {x.newStr : x \in digit}
                ELSE IF \E x \in symbol : x.changed THEN {x.newStr : x \in symbol}
                ELSE applyAlternativeTransform(localPart)
  IN IF Len(parts) < 2 \/ parts[2] = <<>> THEN {email}
     ELSE {s \o <<"@">> \o parts[2] : s \in newStr}

\* The characters emails are built from: a digit, two symbols, a vowel, an
\* upper-case consonant and the separator.
EmailChars == {"4", ".", "_", "a", "B", "@"}

\* The handler passes every non-empty string on.
Emails == StringsUpTo(EmailChars, MaxEmailLen) \ {<<>>}

InitEmail ==
  /\ cfg = Config("link", <<"shopA">>, Undef, Undef)
  /\ IdleServer
  /\ fnArg \in Emails
  /\ fnRet = <<>>

ApplyTransformEmail ==
  /\ fnRet = <<>>
  /\ \E out \in transformEmail(fnArg) : fnRet' = <<out>>
  /\ UNCHANGED <<cfg, pc, route, body, query, hook, env, sent, reply, resp,
                 answers, log, urlSource, procVars, fnArg>>

NextEmail == ApplyTransformEmail

SpecEmail == InitEmail /\ [][NextEmail]_vars

\* ---------------------------------------------------------- C25, C26, C27
EmailDone == fnRet # <<>>

HasAt(e) == \E i \in 1..Len(e) : e[i] = "@"

FirstAt(e) == CHOOSE i \in 1..Len(e) : e[i] = "@" /\ \A k \in 1..(i - 1) : e[k] # "@"

\* the local part: what precedes the first '@' (the whole text without one)
LocalPartOf(e) == IF HasAt(e) THEN SubSeq(e, 1, FirstAt(e) - 1) ELSE e

\* the domain: what follows the first '@'
DomainOf(e) == IF HasAt(e) THEN SubSeq(e, FirstAt(e) + 1, Len(e)) ELSE <<>>

\* what the code takes for the domain: the text between the first '@' and
\* the next one (or the end)
DomainPiece(e) == LocalPartOf(DomainOf(e))

HasDigit(q) == \E i \in 1..Len(q) : q[i] \in DigitChars
HasSymbol(q) == \E i \in 1..Len(q) : q[i] \in SymbolChars

\* q with exactly one character of the set removed
OneRemoved(q, out, chars) ==
  \E i \in 1..Len(q) :
    /\ q[i] \in chars
    /\ Len(out) = Len(q) - 1
    /\ \A k \in 1..Len(out) : out[k] = IF k < i THEN q[k] ELSE q[k + 1]

\* q with one or two digits appended
DigitsAppended(q, out) ==
  /\ Len(out) \in {Len(q) + 1, Len(q) + 2}
  /\ \A k \in 1..Len(q) : out[k] = q[k]
  /\ \A k \in (Len(q) + 1)..Len(out) : out[k] \in DigitChars

\* q with one character removed and, possibly, a different lower-case letter
\* of the same kind (vowel for a vowel, consonant otherwise) in its place
LetterRemoved(q, out) ==
  \E i \in 1..Len(q) :
    \/ /\ Len(out) = Len(q) - 1
       /\ \A k \in 1..Len(out) : out[k] = IF k < i THEN q[k] ELSE q[k + 1]
    \/ /\ Len(out) = Len(q)
       /\ \A k \in 1..Len(q) : k # i => out[k] = q[k]
       /\ out[i] # q[i]
       /\ out[i] \in {LowerAlphabet[k] : k \in 1..Len(LowerAlphabet)}
       /\ isVowel(out[i]) <=> isVowel(q[i])

\* The priority rule on local part q giving local part out.
ByPriority(q, out) ==
  IF HasDigit(q) THEN OneRemoved(q, out, DigitChars)
  ELSE IF HasSymbol(q) THEN OneRemoved(q, out, SymbolChars)
  ELSE DigitsAppended(q, out) \/ LetterRemoved(q, out)

C26_DomainUnchanged ==
  EmailDone =>
    /\ DomainOf(fnRet[1]) = DomainOf(fnArg)
    /\ (~HasAt(fnArg) \/ DomainOf(fnArg) = <<>>) => fnRet[1] = fnArg

\* C27 as stated -- an email with an '@' and a non-empty domain never comes
\* back as it went in, whatever the random choices.
C27_AlwaysDifferent ==
  (EmailDone /\ HasAt(fnArg) /\ DomainOf(fnArg) # <<>>) => fnRet[1] # fnArg

\* -------------------------------------------------------------- link builder
\* paymentrack/server.js, second revision: POST /create-donation-order builds
\* a checkout link from the request and never calls the provider.  Strings
\* are sequences of UTF-16 code units here; HighSurrogate and LowSurrogate
\* together are one character outside the basic plane.
HighSurrogate == "<D83D>"
LowSurrogate == "<DE00>"

UnreservedChars ==
  {LowerAlphabet[k] : k \in 1..Len(LowerAlphabet)}
    \cup {UpperAlphabet[k] : k \in 1..Len(UpperAlphabet)}
    \cup DigitChars \cup {"-", "_", ".", "!", "~", "*", "'", "(", ")"}

\* encodeURIComponent throws URIError on a surrogate without its partner.
URIMalformed(q) ==
  \E i \in 1..Len(q) :
    \/ q[i] = HighSurrogate /\ (i = Len(q) \/ q[i + 1] # LowSurrogate)
    \/ q[i] = LowSurrogate /\ (i = 1 \/ q[i - 1] # HighSurrogate)

\* the UTF-8 octets of one code unit (of the pair, at its high half), escaped
PercentEncoded(ch) ==
  CASE ch = " " -> <<"%", "2", "0">>
    [] ch = "\t" -> <<"%", "0", "9">>
    [] ch = "@" -> <<"%", "4", "0">>
    [] ch = "+" -> <<"%", "2", "B">>
    [] ch = "&" -> <<"%", "2", "6">>
    [] ch = HighSurrogate -> <<"%", "F", "0", "%", "9", "F", "%", "9", "8", "%", "8", "0">>
    [] ch = LowSurrogate -> <<>>
    [] OTHER -> <<"%", ch>>

\* encodeURIComponent on a well-formed string
RECURSIVE encodeURIComponent(_)
encodeURIComponent(q) ==
  IF q = <<>> THEN <<>>
  ELSE (IF Head(q) \in UnreservedChars THEN <<Head(q)>> ELSE PercentEncoded(Head(q)))
         \o encodeURIComponent(Tail(q))

LinkBody(a, v, n, e, p) == [Body(a, v, n, e) EXCEPT !.phoneNumber = p]

LinkVariants ==
  {Undef, Num(0), Num(1), Num(0 - 1), Str(<<"2">>), Str(<<"a">>), Str(<<" ">>), Bool(TRUE)}
LinkEmails ==
  {Undef, Num(1), Str(<<>>),
   Str(<<"a", "4", "@", "x">>), Str(<<"a", ".", "b", "@", "x">>), Str(<<"a", "B", "@", "x">>),
   Str(<<"@", "x">>), Str(<<"a", "+", "b">>),
   Str(<<HighSurrogate, LowSurrogate, "@", "x">>)}
LinkNames ==
  {Undef, Num(5), Str(<<" ">>), Str(<<"a">>), Str(<<"a", "&">>),
   Str(<<" ", "a", "\t", " ", "b", " ", "a">>)}
LinkPhones ==
  {Undef, Num(5), Str(<<"\t">>), Str(<<"+", "1", " ", "5">>), Str(<<"5", LowSurrogate>>)}
LinkAmounts == {Undef, Num(5), Str(<<"a">>)}

LinkBodies ==
  { LinkBody(a, v, n, e, p) :
      a \in LinkAmounts, v \in LinkVariants, n \in LinkNames, e \in LinkEmails,
      p \in LinkPhones }

ErrLinkVariant == "Missing or invalid variant ID."
ErrLinkEmail == "Missing or invalid email."
ErrLinkName == "Missing or invalid full name."
ErrLinkPhone == "Missing or invalid phone number."
ErrLinkInternal == "Internal error. Could not generate link."

\* The four checks in the order of the code; "ok" when all pass.
LinkValidate(b) ==
  IF ~Truthy(b.variantId) \/ IsNaN(ToNumber(b.variantId)) THEN ErrLinkVariant
  ELSE IF ~Truthy(b.email) \/ b.email.t # "string" THEN ErrLinkEmail
  ELSE IF ~Truthy(b.fullName) \/ b.fullName.t # "string" \/ Trim(b.fullName.s) = <<>>
    THEN ErrLinkName
  ELSE IF ~Truthy(b.phoneNumber) \/ b.phoneNumber.t # "string"
            \/ Trim(b.phoneNumber.s) = <<>>
    THEN ErrLinkPhone
  ELSE "ok"

\* `https://${slug}.mycartpanda.com/checkout/${variantId}:1?email=...`
CheckoutLink(c, b, finalEmail) ==
  Str(<<"https://">> \o c.CARTPANDA_SHOP_SLUG \o <<".mycartpanda.com/checkout/">>
      \o TemplateString(b.variantId) \o <<":1?email=">> \o encodeURIComponent(finalEmail)
      \o <<"&first_name=">> \o encodeURIComponent(splitFullName(b.fullName.s).first)
      \o <<"&last_name=">> \o encodeURIComponent(splitFullName(b.fullName.s).last)
      \o <<"&phone=">> \o encodeURIComponent(b.phoneNumber.s))

\* The whole handler: it has no await.
LinkHandler(r, b) ==
  /\ route' = [route EXCEPT ![r] = "create"]
  /\ body' = [body EXCEPT ![r] = b]
  /\ answers' = [answers EXCEPT ![r] = @ + 1]
  /\ pc' = [pc EXCEPT ![r] = "done"]
  /\ IF LinkValidate(b) # "ok"
     THEN /\ resp' = [resp EXCEPT ![r] = JsonError(400, LinkValidate(b))]
          /\ UNCHANGED log
     ELSE \E finalEmail \in transformEmail(b.email.s) :
            IF \/ URIMalformed(finalEmail)
               \/ URIMalformed(splitFullName(b.fullName.s).first)
               \/ URIMalformed(splitFullName(b.fullName.s).last)
               \/ URIMalformed(b.phoneNumber.s)
            THEN /\ resp' = [resp EXCEPT ![r] = JsonError(500, ErrLinkInternal)]
                 /\ log' = [log EXCEPT ![r] = <<"URIError">>]
            ELSE /\ resp' = [resp EXCEPT ![r] = Json200(CheckoutLink(cfg, b, finalEmail))]
                 /\ UNCHANGED log
  /\ UNCHANGED <<cfg, query, hook, env, sent, reply, urlSource, procVars, fnVars>>

LinkCreateDonationOrder(r) ==
  /\ server = "running"
  /\ cfg.rev = "link"
  /\ pc[r] = "idle"
  /\ \E b \in LinkBodies : LinkHandler(r, b)

LinkConfigs ==
  { Config("link", <<"shopA">>, Undef, Undef), Config("link", <<"shopB">>, Undef, Undef) }

InitLink ==
  /\ cfg \in LinkConfigs
  /\ IdleServer
  /\ fnArg = <<>>
  /\ fnRet = <<>>

NextLink ==
  \/ LinkCreateDonationOrder(1)
  \/ Discard(1)

SpecLink == InitLink /\ [][NextLink]_vars

\* ------------------------------------------------------- start-up, then use
\* Start-up, then one request at a time over the representative inputs.
NextStart ==
  \/ Startup
  \/ ConcCreateDonationOrder(1)
  \/ ConcCreateOrderSettled(1)
  \/ ConcCartpandaReturn(1)
  \/ ConcLookupSettled(1)
  \/ LinkCreateDonationOrder(1)
  \/ Discard(1)

SpecStart == InitStart /\ [][NextStart]_vars

\* ---------------------------------------------------------------- C28
LinkRequest(r) == cfg.rev = "link" /\ CreateRequest(r) /\ Answered(r)

NonBlankString(v) == v.t = "string" /\ Trim(v.s) # <<>>

\* the request the claim is about
WellFormedLinkRequest(r) ==
  /\ IsNumeric(body[r].variantId)
  /\ body[r].email.t = "string" /\ body[r].email.s # <<>>
  /\ NonBlankString(body[r].fullName)
  /\ NonBlankString(body[r].phoneNumber)

\* url is https://{shop}.mycartpanda.com/checkout/{variantId}:1?email=E
\* &first_name=F&last_name=L&phone=P for some texts E, F, L, P free of '&'
HasLinkForm(r, url) ==
  LET prefix == <<"https://">> \o cfg.CARTPANDA_SHOP_SLUG \o <<".mycartpanda.com/checkout/">>
                  \o TemplateString(body[r].variantId) \o <<":1?email=">>
      n == Len(prefix)
      keys == {i \in 1..Len(url) : url[i] \in {"&first_name=", "&last_name=", "&phone="}}
  IN /\ Len(url) >= n /\ SubSeq(url, 1, n) = prefix
     /\ \A i \in 1..Len(url) : url[i] # "&"
     /\ \E i, j, k \in (n + 1)..Len(url) :
          /\ i < j /\ j < k /\ keys = {i, j, k}
          /\ url[i] = "&first_name=" /\ url[j] = "&last_name=" /\ url[k] = "&phone="

\* C28 as stated -- the link builder answers every request that has a
\* numeric variantId, a non-empty string email, a non-blank string fullName
\* and a non-blank string phoneNumber with 200 and a checkout URL of the
\* documented form, and it never calls the provider.
C28_LinkAlwaysBuilt ==
  \A r \in Slots :
    LinkRequest(r) =>
      /\ sent[r] = <<>>
      /\ WellFormedLinkRequest(r) =>
           /\ resp[r].status = 200
           /\ resp[r].checkoutUrl.t = "string"
           /\ HasLinkForm(r, resp[r].checkoutUrl.s)

\* ---------------------------------------------------------------- C29
\* An environment variable is present when it is set to a non-empty string.
EnvPresent(v) == v.t = "string" /\ v.s # <<>>

\* what each revision requires: the API key and the shop slug, the slug alone
\* in the mock and the link-builder revisions
RequiredPresent ==
  /\ cfg.CARTPANDA_SHOP_SLUG # <<>>
  /\ cfg.rev \notin {"mock", "link"} => EnvPresent(cfg.CARTPANDA_API_KEY)

NothingHandled ==
  \A r \in Slots : route[r] = "none" /\ answers[r] = 0 /\ sent[r] = <<>>

\* the call names a shop and carries a bearer token
Credentialed(call) ==
  /\ Len(call.path) >= 2 /\ call.path[1] = cfg.CARTPANDA_SHOP_SLUG[1]
  /\ Len(call.auth) >= 2 /\ call.auth[1] = "Bearer "
  /\ call.auth[2] \notin {"", "undefined", "null"}

\* C29 -- the server listens only when the required configuration is
\* present; otherwise the process has exited with a non-zero code and no
\* request was handled; every outbound call names the shop and carries a
\* credential.
C29_StartupGuard ==
  /\ server = "running" => RequiredPresent
  /\ (server # "starting" /\ ~RequiredPresent) =>
       server = "exited" /\ exitCode # 0 /\ NothingHandled
  /\ server = "starting" => NothingHandled
  /\ \A r \in Slots : \A i \in 1..Len(sent[r]) :
       cfg.CARTPANDA_SHOP_SLUG # <<>> /\ Credentialed(sent[r][i])

\* A deployment with its shop slug but no API key: exited with code 1.
C29_Witness ==
  /\ cfg.rev = "geo" /\ cfg.CARTPANDA_SHOP_SLUG # <<>> /\ cfg.CARTPANDA_API_KEY = Undef
  /\ server = "exited" /\ exitCode = 1 /\ NothingHandled

\* ------------------------------------------------------ WooCommerce plugin
\* part_003 (PHP): the plugin puts a stored message above the order details
\* of an order email.  A stored text is a sequence of fragments; Unset is a
\* key that isset() does not find (missing, or null).
PhpText(s) == [set |-> TRUE, s |-> s]
Unset == [set |-> FALSE, s |-> <<>>]

MessageKeys ==
  {"order_new", "order_processing", "order_completed", "order_refunded",
   "order_cancelled", "order_failed", "order_on_hold"}

\* What the options may hold under a key: nothing, the empty text (the
\* settings form saved with the field cleared), a text naming its key; for
\* two keys also the text '0' and a text with markup wp_kses_post strips.
StoredTexts(key) ==
  {Unset, PhpText(<<>>), PhpText(<<"text of ", key>>)}
    \cup (IF key = "order_new" THEN {PhpText(<<"0">>)} ELSE {})
    \cup (IF key = "order_completed" THEN {PhpText(<<"<script>", "hi">>)} ELSE {})

\* $this->options['custom_texts']
CustomTexts ==
  { [order_new |-> a, order_processing |-> b, order_completed |-> c,
     order_refunded |-> d, order_cancelled |-> e, order_failed |-> f,
     order_on_hold |-> g] :
      a \in StoredTexts("order_new"), b \in StoredTexts("order_processing"),
      c \in StoredTexts("order_completed"), d \in StoredTexts("order_refunded"),
      e \in StoredTexts("order_cancelled"), f \in StoredTexts("order_failed"),
      g \in StoredTexts("order_on_hold") }

\* $email: an object whose id may be unset; ids are strings
EmailIds ==
  {"customer_completed_order", "customer_processing_order", "customer_refunded_order",
   "customer_on_hold_order", "customer_cancelled_order", "failed_order",
   "customer_new_order", "", "new_order", "customer_note"}
PhpEmails == {[hasId |-> FALSE, id |-> ""]} \cup {[hasId |-> TRUE, id |-> i] : i \in EmailIds}

\* Mutant: every email type answered with the new-order message.
get_custom_message_default_only(custom_texts, email_type) ==
  IF custom_texts["order_new"].set THEN custom_texts["order_new"].s ELSE <<>>

\* switch ( $email_type ) compares loosely; between two strings of which the
\* labels are not numeric that is equality.
get_custom_message_by_email_type(custom_texts, email_type) ==
  LET message_key ==
        CASE email_type = "customer_completed_order" -> "order_completed"
          [] email_type = "customer_processing_order" -> "order_processing"
          [] email_type = "customer_refunded_order" -> "order_refunded"
          [] email_type = "customer_on_hold_order" -> "order_on_hold"
          [] email_type = "customer_cancelled_order" -> "order_cancelled"
          [] email_type = "failed_order" -> "order_failed"
          [] email_type = "customer_new_order" -> "order_new"
          [] OTHER -> "order_new"
  IN IF custom_texts[message_key].set THEN custom_texts[message_key].s ELSE <<>>

\* PHP empty() on a string: '' and '0'
PhpEmpty(s) == s = <<>> \/ s = <<"0">>

\* wp_kses_post: markup not allowed in a post is removed
DisallowedMarkup == {"<script>"}
wp_kses_post(s) == SelectSeq(s, LAMBDA f : f \notin DisallowedMarkup)

\* isset( $email->id ) ? $email->id : ''
TemplateType(email) == IF email.hasId THEN email.id ELSE ""

\* What before_order_details echoes, <<>> when it echoes nothing.
before_order_details(custom_texts, isOrder, plain_text, email) ==
  IF ~isOrder \/ plain_text THEN <<>>
  ELSE LET message == get_custom_message_by_email_type(custom_texts, TemplateType(email))
       IN IF ~PhpEmpty(message)
          THEN <<"<div class=\"fatbikekorting-message\">">> \o wp_kses_post(message)
                 \o <<"</div>">>
          ELSE <<>>

\* One email being rendered: the options loaded, the hook's arguments.
PluginArgs ==
  { [custom_texts |-> t, isOrder |-> o, plain_text |-> p, email |-> e] :
      t \in CustomTexts, o \in BOOLEAN, p \in BOOLEAN, e \in PhpEmails }

InitPlugin ==
  /\ cfg = Config("plugin", <<>>, Undef, Undef)
  /\ IdleServer
  /\ fnArg \in {<<a>> : a \in PluginArgs}
  /\ fnRet = <<>>

\* The public method called with the email's id.
GetCustomMessage ==
  /\ fnRet = <<>>
  /\ fnRet' = <<[call |-> "get_custom_message_by_email_type",
                 value |-> get_custom_message_by_email_type(
                             fnArg[1].custom_texts, TemplateType(fnArg[1].email))]>>
  /\ UNCHANGED <<cfg, pc, route, body, query, hook, env, sent, reply, resp,
                 answers, log, urlSource, procVars, fnArg>>

\* WooCommerce fires woocommerce_email_order_details.
BeforeOrderDetails ==
  /\ fnRet = <<>>
  /\ fnRet' = <<[call |-> "before_order_details",
                 value |-> before_order_details(fnArg[1].custom_texts, fnArg[1].isOrder,
                                                fnArg[1].plain_text, fnArg[1].email)]>>
  /\ UNCHANGED <<cfg, pc, route, body, query, hook, env, sent, reply, resp,
                 answers, log, urlSource, procVars, fnArg>>

NextPlugin ==
  \/ GetCustomMessage
  \/ BeforeOrderDetails

SpecPlugin == InitPlugin /\ [][NextPlugin]_vars

\* ---------------------------------------------------------------- C30
\* the message key the claim assigns to an email id
KeyOf(id) ==
  IF id \in {"customer_completed_order", "customer_processing_order",
             "customer_refunded_order", "customer_on_hold_order",
             "customer_cancelled_order"}
  THEN <<"order_completed", "order_processing", "order_refunded", "order_on_hold",
         "order_cancelled">>[
         CHOOSE k \in 1..5 :
           <<"customer_completed_order", "customer_processing_order",
             "customer_refunded_order", "customer_on_hold_order",
             "customer_cancelled_order">>[k] = id]
  ELSE IF id = "failed_order" THEN "order_failed"
  ELSE "order_new"

MessageCalled == fnRet # <<>> /\ fnRet[1].call = "get_custom_message_by_email_type"
HookCalled == fnRet # <<>> /\ fnRet[1].call = "before_order_details"

\* the stored entry selected for the email being rendered
Selected == fnArg[1].custom_texts[KeyOf(TemplateType(fnArg[1].email))]

\* the hook echoes nothing unless the order is a WC_Order, the email is not
\* plain text and the selected message is non-empty
EmitsOnlyForOrders ==
  (HookCalled /\ fnRet[1].value # <<>>) =>
    /\ fnArg[1].isOrder /\ ~fnArg[1].plain_text
    /\ Selected.set /\ Selected.s # <<>>
    /\ fnRet[1].value[1] = "<div class=\"fatbikekorting-message\">"

\* C30 as stated -- the message is the stored text of the key that belongs to
\* the email id ('order_new' for an unknown or empty id); it is the empty
\* string only when that key is absent from the stored options; the hook
\* emits the block only for a WC_Order, not plain text, non-empty message.
C30_EmptyOnlyWhenAbsent ==
  /\ MessageCalled =>
       /\ Selected.set => fnRet[1].value = Selected.s
       /\ fnRet[1].value = <<>> => ~Selected.set
  /\ EmitsOnlyForOrders

\* C30 amended -- the message is the stored text of the key that belongs to
\* the email id; it is the empty string exactly when that key is absent or
\* its stored text is itself empty; the hook emits as stated.
C30_MessageByEmailType ==
  /\ MessageCalled =>
       /\ Selected.set => fnRet[1].value = Selected.s
       /\ fnRet[1].value = <<>> <=> (~Selected.set \/ Selected.s = <<>>)
  /\ EmitsOnlyForOrders

\* A refund email gets the refund text although 'order_new' is unset.
C30_Witness ==
  /\ MessageCalled
  /\ fnArg[1].email.id = "customer_refunded_order"
  /\ fnArg[1].custom_texts["order_new"] = Unset
  /\ fnRet[1].value = <<"text of ", "order_refunded">>

====
